---------------------------- MODULE Spec2Model ----------------------------
(***************************************************************************)
(* Session registry, per-session outbound queue and chat fan-out of the    *)
(* peace bancho server.                                                    *)
(*                                                                         *)
(* core/services/src/bancho_state/components.rs         queue, frames      *)
(* core/services/src/bancho_state/services/bancho_state.rs  session service*)
(* core/services/src/chat/services/chat.rs              chat service       *)
(* core/services/src/bancho/services/bancho/packet_processor.rs  dispatch  *)
(*                                                                         *)
(* The registry (UserStore), the channel registry and the message log are  *)
(* called by these files but defined elsewhere in the repository; they are *)
(* modelled from their documented contract.                                *)
(***************************************************************************)
EXTENDS Integers, Sequences, FiniteSets, TLC

\* ------------------------------------------------------------------ bounds
NumUsers == 2
MaxSessions == 3
NumTasks == 2
MaxPush == 2
NumChannels == 1
MaxMsgs == 3

\* capacity of a channel's message log (a configuration value)
LogCapacity == 2

Users == 1..NumUsers
Tasks == 1..NumTasks
Handles == 1..MaxSessions
Channels == 1..NumChannels
\* the game client's platform and one of the platforms that get no bancho
\* notification
Platforms == {"Bancho", "Web"}

\* no session / no value
None == 0

\* the two display names of a user, as fixed by the user database
UsernameOf(u) == 10 + u
UnicodeOf(u) == 20 + u

\* the external name of a channel; channel 1 is "#osu"
ChannelNameOf(c) == 100 + c

VARIABLES
    sessions,   \* handle -> session record (Arc<Session>), kept after removal
    created,    \* number of sessions constructed so far
    indexes,    \* the four key -> handle maps of the registry
    live,       \* handles of the sessions inserted and not yet deleted
    queue,      \* handle -> packets_queue (VecDeque<Packet>)
    qlock,      \* handle -> task holding the queue mutex, or None
    pc,         \* task -> position
    loc,        \* task -> locals of the running operation
    seq,        \* task -> number of frames the task has submitted
    drained,    \* handle -> concatenation of the drain results of its queue
    resp,       \* result of the operation that completed last
    members,        \* channel -> platform -> user ids (Channel::users)
    user_channels,  \* user id -> platform -> channel ids (the reverse map)
    message_queue,  \* channel -> message log (Channel::message_queue)
    chat_indexes,   \* the four maps of the chat service's session store
    chat_queue,     \* handle -> queue of the chat-side session
    channel_read_process,   \* handle -> channel id -> last message id read
    owed,       \* handle -> channel -> ids appended while its user is a member
    due_join,   \* handle -> channels joined since the last pull
    pulled,     \* handle -> channel -> ids returned by its pulls, in order
    public_info,\* the remote chat client's cache of the public channels
    api_clients \* the clients of the osu! api object, one per key, in order

regVars == <<sessions, created, indexes, live>>
queueVars == <<queue, qlock, drained>>
taskVars == <<pc, loc, seq>>
channelVars == <<members, user_channels, message_queue, public_info>>
chatSessionVars == <<chat_indexes, chat_queue, channel_read_process>>
ghostVars == <<owed, due_join, pulled>>
chatVars == <<channelVars, chatSessionVars, ghostVars>>
\* everything outside bancho_state: the chat service and the osu! api object
restVars == <<chatVars, api_clients>>

vars == <<regVars, queueVars, taskVars, resp, restVars>>

\* ------------------------------------------------------------------ frames
\* A frame is the unit pushed on a queue; its bytes are opaque here and are
\* identified by what was packed into them.
Frame(kind, a, b, c) == [kind |-> kind, a |-> a, b |-> b, c |-> c]

\* bytes submitted by a caller: tagged with the submitting task and its count
DataFrame(t, n) == Frame("Data", t, n, 0)
LogoutFrame == Frame("Logout", 0, 0, 0)
NoFrame == Frame("None", 0, 0, 0)

\* ------------------------------------------------------------ user queries
UserQuery(kind, key) == [kind |-> kind, key |-> key]

QueryKinds == {"SessionId", "UserId", "Username", "UsernameUnicode"}

\* every query a caller can form about user u or session id sid
AllQueries ==
    {UserQuery("SessionId", k) : k \in Handles}
        \cup {UserQuery("UserId", u) : u \in Users}
        \cup {UserQuery("Username", UsernameOf(u)) : u \in Users}
        \cup {UserQuery("UsernameUnicode", UnicodeOf(u)) : u \in Users}

\* ------------------------------------------------------------ hash maps
MapGet(m, k) == IF k \in DOMAIN m THEN m[k] ELSE None
MapInsert(m, k, v) == [x \in DOMAIN m \cup {k} |-> IF x = k THEN v ELSE m[x]]
MapRemove(m, k) == [x \in DOMAIN m \ {k} |-> m[x]]
EmptyMap == [x \in {} |-> None]
Range(m) == {m[k] : k \in DOMAIN m}

\* ------------------------------------------------------------ registry
\* PresenceFilter: None = 0 (the default), All = 1, Friends = 2
PresenceFilterFromI32(n) ==
    IF n \in 0..2 THEN [some |-> TRUE, val |-> n]
    ELSE [some |-> FALSE, val |-> 0]

\* BanchoStatus::default
DefaultStatus ==
    [online_status |-> 0, description |-> 0, beatmap_id |-> 0,
     beatmap_md5 |-> 0, mods |-> 0, mode |-> 0]

\* the time to live of an inactive session (a configuration value)
Ttl == 2

\* filter_set records whether update_presence_filter was ever applied.
\* last_active is kept as the time that has passed since the session was
\* last active, and counts no further than Ttl + 1; last_check is the time
\* that has passed since the last check_user_session_exists found the
\* session (or since its creation), counted the same way
NoSession == [id |-> None, user_id |-> None, username |-> None,
              username_unicode |-> None, presence_filter |-> 0,
              filter_set |-> FALSE, bancho_status |-> DefaultStatus,
              last_active |-> 0, last_check |-> 0]

EmptyIndexes == [session_id |-> EmptyMap, user_id |-> EmptyMap,
                 username |-> EmptyMap, username_unicode |-> EmptyMap]

\* lookup of a session by a query variant
GetInnerSwapped(idx, q) ==
    CASE q.kind = "UserId" -> MapGet(idx.user_id, q.key)
      [] q.kind = "Username" -> MapGet(idx.username_unicode, q.key)
      [] q.kind = "UsernameUnicode" -> MapGet(idx.username, q.key)
      [] q.kind = "SessionId" -> MapGet(idx.session_id, q.key)

GetInner(idx, q) ==
    CASE q.kind = "UserId" -> MapGet(idx.user_id, q.key)
      [] q.kind = "Username" -> MapGet(idx.username, q.key)
      [] q.kind = "UsernameUnicode" -> MapGet(idx.username_unicode, q.key)
      [] q.kind = "SessionId" -> MapGet(idx.session_id, q.key)

\* session ids are time-prefixed tokens: each one generated is greater than
\* every one generated before
NewSessionId(n) == n + 1

\* Session::new from a CreateSessionDto
NewSession(dto, n) ==
    [id |-> NewSessionId(n), user_id |-> dto.user_id,
     username |-> dto.username, username_unicode |-> dto.username_unicode,
     presence_filter |-> 0, filter_set |-> FALSE,
     bancho_status |-> DefaultStatus, last_active |-> 0, last_check |-> 0]

RemoveUnicode(m, s) ==
    IF s.username_unicode # None THEN MapRemove(m, s.username_unicode) ELSE m

InsertUnicode(m, s, h) ==
    IF s.username_unicode # None THEN MapInsert(m, s.username_unicode, h)
    ELSE m

\* removal of one record from all four indexes
DeleteInner(idx, s) ==
    [session_id |-> MapRemove(idx.session_id, s.id),
     user_id |-> MapRemove(idx.user_id, s.user_id),
     username |-> MapRemove(idx.username, s.username),
     username_unicode |-> RemoveUnicode(idx.username_unicode, s)]

\* insertion of one record into all four indexes
InsertInner(idx, s, h) ==
    [session_id |-> MapInsert(idx.session_id, s.id, h),
     user_id |-> MapInsert(idx.user_id, s.user_id, h),
     username |-> MapInsert(idx.username, s.username, h),
     username_unicode |-> InsertUnicode(idx.username_unicode, s, h)]

\* the session displaced by a create: the one registered under the user id
DisplacedNever(idx, dto) == None

Displaced(idx, dto) == GetInner(idx, UserQuery("UserId", dto.user_id))

\* ------------------------------------------------------------ queue
\* a packet built of several frames, or of none: one element of a queue
Packet(frames) == [kind |-> "Packet", frames |-> frames]

\* packet.iter(): the frames that the bytes of a queue element are made of
Bytes(packet) == IF packet.kind = "Packet" THEN packet.frames ELSE <<packet>>

PushPacketFront(q, f) == <<f>> \o q

\* BanchoPacketsQueue::push_packet: push_back under the queue mutex
PushPacket(q, f) == Append(q, f)

\* BanchoPacketsQueue::dequeue_packet: pop_front
DequeuePacketBack(q) ==
    IF q = <<>> THEN [some |-> FALSE, packet |-> NoFrame, rest |-> q]
    ELSE [some |-> TRUE, packet |-> q[Len(q)],
          rest |-> SubSeq(q, 1, Len(q) - 1)]

DequeuePacket(q) ==
    IF q = <<>> THEN [some |-> FALSE, packet |-> NoFrame, rest |-> q]
    ELSE [some |-> TRUE, packet |-> Head(q), rest |-> Tail(q)]

\* BanchoPacketsQueue::dequeue_all_packets: pop_front until empty, extending
\* the buffer with each packet
RECURSIVE DequeueAllPackets(_, _)
DequeueAllPackets(buf, q) ==
    LET r == DequeuePacket(q) IN
    IF ~r.some THEN buf
    ELSE DequeueAllPackets(buf \o Bytes(r.packet), r.rest)

\* ------------------------------------------------------------ task locals
NoLoc == [h |-> None, buf |-> <<>>, dto |-> NoSession, old |-> None,
          op |-> "none", to |-> UserQuery("SessionId", None),
          quiet |-> FALSE, req |-> DefaultStatus, out |-> <<>>,
          targets |-> <<>>, next |-> 1, visited |-> {},
          packet |-> DefaultStatus]

Idle(t) == pc[t] = "idle"

\* the tasks that hold a read lease of the registry from one step to the
\* next
ReadLeases == {t \in Tasks : pc[t] \in {"batch_enqueue", "broadcast"}}

\* the write lease of the registry is granted while no read lease is held
WriteLeaseFreeAlways == TRUE

WriteLeaseFree == ReadLeases = {}

Dtos ==
    {[id |-> None, user_id |-> u, username |-> UsernameOf(u),
      username_unicode |-> n] : u \in Users, n \in {None}}
        \cup {[id |-> None, user_id |-> u, username |-> UsernameOf(u),
               username_unicode |-> UnicodeOf(u)] : u \in Users}

\* result of an operation as seen by its caller
Resp(t, op, err, val) ==
    [task |-> t, op |-> op, err |-> err, val |-> val, old |-> None,
     data |-> <<>>]
NoResp == Resp(None, "none", "", None)

\* ------------------------------------------------------------ session service
\* create_user_session, the call: the request is taken apart; a request
\* without connection info fails before the registry is touched
CreateUserSessionCall(t, dto, has_connection_info) ==
    /\ Idle(t)
    /\ created + Cardinality({x \in Tasks : pc[x] = "create"}) < MaxSessions
    /\ IF has_connection_info
       THEN /\ pc' = [pc EXCEPT ![t] = "create"]
            /\ loc' = [loc EXCEPT ![t] = [NoLoc EXCEPT !.dto = dto]]
            /\ UNCHANGED resp
       ELSE /\ resp' = Resp(t, "create", "InvalidConnectionInfo", None)
            /\ UNCHANGED <<pc, loc>>
    /\ UNCHANGED <<regVars, queueVars, seq>>
    /\ UNCHANGED restVars

\* the session id reported to the caller of create_user_session
CreateUserSessionResponseUserId(session) == session.user_id

CreateUserSessionResponse(session) == session.id

\* create_user_session, the registry update (UserSessions::create, under the
\* registry's write lease): a session registered under the same user id gets
\* a logout frame and is removed, then the new session is inserted
CreateUserSessionBody(t) ==
    /\ pc[t] = "create"
    /\ WriteLeaseFree
    /\ LET dto == loc[t].dto
           h == created + 1
           session == NewSession(dto, created)
           old == Displaced(indexes, dto)
           cleared == IF old # None THEN DeleteInner(indexes, sessions[old])
                      ELSE indexes
       IN /\ old # None => qlock[old] = None
          /\ sessions' = [sessions EXCEPT ![h] = session]
          /\ created' = h
          /\ live' = (live \ {old}) \cup {h}
          /\ indexes' = InsertInner(cleared, session, h)
          /\ queue' = IF old # None
                      THEN [queue EXCEPT
                               ![old] = PushPacket(queue[old], LogoutFrame)]
                      ELSE queue
          /\ resp' = [Resp(t, "create", "",
                            CreateUserSessionResponse(session))
                       EXCEPT !.old = old]
    /\ pc' = [pc EXCEPT ![t] = "idle"]
    /\ loc' = [loc EXCEPT ![t] = NoLoc]
    /\ UNCHANGED <<qlock, seq, drained>>
    /\ UNCHANGED restVars

\* delete_user_session: UserSessions::delete, result ignored
DeleteUserSession(t, query) ==
    /\ Idle(t)
    /\ WriteLeaseFree
    /\ LET h == GetInner(indexes, query)
       IN /\ indexes' = IF h # None THEN DeleteInner(indexes, sessions[h])
                        ELSE indexes
          /\ live' = live \ {h}
    /\ resp' = Resp(t, "delete", "", None)
    /\ UNCHANGED <<sessions, created, queueVars, taskVars>>
    /\ UNCHANGED restVars

\* enqueue_bancho_packets with a user-addressed target
EnqueueBanchoPackets(t, query) ==
    /\ Idle(t)
    /\ seq[t] < MaxPush
    /\ LET h == GetInner(indexes, query)
           packet == DataFrame(t, seq[t] + 1)
       IN IF h = None
          THEN /\ resp' = Resp(t, "enqueue", "SessionNotExists", None)
               /\ UNCHANGED queue
          ELSE /\ qlock[h] = None
               /\ queue' = [queue EXCEPT ![h] = PushPacket(queue[h], packet)]
               /\ resp' = Resp(t, "enqueue", "", None)
    /\ seq' = [seq EXCEPT ![t] = seq[t] + 1]
    /\ UNCHANGED <<regVars, qlock, drained, pc, loc>>
    /\ UNCHANGED restVars

\* dequeue_bancho_packets: resolve the session and take its queue mutex
DequeueBanchoPacketsLock(t, query) ==
    /\ Idle(t)
    /\ LET h == GetInner(indexes, query)
       IN IF h = None
          THEN /\ resp' = Resp(t, "dequeue", "SessionNotExists", None)
               /\ UNCHANGED <<qlock, pc, loc>>
          ELSE /\ qlock[h] = None
               /\ qlock' = [qlock EXCEPT ![h] = t]
               /\ pc' = [pc EXCEPT ![t] = "dequeue"]
               /\ loc' = [loc EXCEPT ![t] = [NoLoc EXCEPT !.h = h]]
               /\ UNCHANGED resp
    /\ UNCHANGED <<regVars, queue, drained, seq>>
    /\ UNCHANGED restVars

\* dequeue_bancho_packets: one turn of the while-let loop with a packet
DequeueBanchoPacketsPop(t) ==
    /\ pc[t] = "dequeue"
    /\ LET h == loc[t].h
           r == DequeuePacket(queue[h])
       IN /\ r.some
          /\ queue' = [queue EXCEPT ![h] = r.rest]
          /\ loc' = [loc EXCEPT ![t].buf = @ \o Bytes(r.packet)]
    /\ UNCHANGED <<regVars, qlock, drained, pc, seq, resp>>
    /\ UNCHANGED restVars

\* a drain that returns without dropping the mutex of the queue
DequeueBanchoPacketsDoneKeepLock(t) ==
    /\ pc[t] = "dequeue"
    /\ LET h == loc[t].h
       IN /\ ~DequeuePacket(queue[h]).some
          /\ drained' = [drained EXCEPT ![h] = @ \o loc[t].buf]
          /\ resp' = [Resp(t, "dequeue", "", None) EXCEPT !.data = loc[t].buf]
    /\ pc' = [pc EXCEPT ![t] = "idle"]
    /\ loc' = [loc EXCEPT ![t] = NoLoc]
    /\ UNCHANGED <<regVars, queue, qlock, seq>>
    /\ UNCHANGED restVars

\* dequeue_bancho_packets: the queue is empty, the mutex is dropped and the
\* collected bytes are returned
DequeueBanchoPacketsDone(t) ==
    /\ pc[t] = "dequeue"
    /\ LET h == loc[t].h
       IN /\ ~DequeuePacket(queue[h]).some
          /\ qlock' = [qlock EXCEPT ![h] = None]
          /\ drained' = [drained EXCEPT ![h] = @ \o loc[t].buf]
          /\ resp' = [Resp(t, "dequeue", "", None) EXCEPT !.data = loc[t].buf]
    /\ pc' = [pc EXCEPT ![t] = "idle"]
    /\ loc' = [loc EXCEPT ![t] = NoLoc]
    /\ UNCHANGED <<regVars, queue, seq>>
    /\ UNCHANGED restVars

\* ------------------------------------------------------------ presence
\* Session::user_stats_packet: the user id and the live status fields; the
\* mode statistics are not written by any operation here and are left out.
\* src names the session the frame was packed from.
UserStatsFrame(session) ==
    [kind |-> "UserStats", a |-> session.user_id, src |-> session.id,
     online_status |-> session.bancho_status.online_status,
     description |-> session.bancho_status.description,
     beatmap_md5 |-> session.bancho_status.beatmap_md5,
     mods |-> session.bancho_status.mods,
     mode |-> session.bancho_status.mode,
     beatmap_id |-> session.bancho_status.beatmap_id]

\* Session::user_presence_packet: the user id and the username
UserPresenceFrame(session) ==
    [kind |-> "UserPresence", a |-> session.user_id, src |-> session.id,
     username |-> session.username]

\* SessionFilter::session_is_target
SessionIsTargetNoUnicode(session, to) ==
    CASE to.kind = "SessionId" -> session.id = to.key
      [] to.kind = "UserId" -> session.user_id = to.key
      [] to.kind = "Username" -> session.username = to.key
      [] to.kind = "UsernameUnicode" -> FALSE

SessionIsTarget(session, to) ==
    CASE to.kind = "SessionId" -> session.id = to.key
      [] to.kind = "UserId" -> session.user_id = to.key
      [] to.kind = "Username" -> session.username = to.key
      [] to.kind = "UsernameUnicode" ->
             IF session.username_unicode # None
             THEN session.username_unicode = to.key
             ELSE FALSE

\* the loop of batch_send_user_stats_packet over the listed queries
RECURSIVE BatchUserStatsPackets(_, _, _, _)
BatchUserStatsPackets(ss, idx, user_queries, to) ==
    IF user_queries = <<>> THEN <<>>
    ELSE LET h == GetInner(idx, Head(user_queries))
             rest == BatchUserStatsPackets(ss, idx, Tail(user_queries), to)
         IN IF h = None THEN rest
            ELSE IF SessionIsTarget(ss[h], to) THEN rest
            ELSE <<UserStatsFrame(ss[h])>> \o rest

\* the loop of batch_send_presences over the listed queries
RECURSIVE BatchPresencesPackets(_, _, _, _)
BatchPresencesPackets(ss, idx, user_queries, to) ==
    IF user_queries = <<>> THEN <<>>
    ELSE LET h == GetInner(idx, Head(user_queries))
             rest == BatchPresencesPackets(ss, idx, Tail(user_queries), to)
         IN IF h = None THEN rest
            ELSE IF SessionIsTarget(ss[h], to) THEN rest
            ELSE <<UserPresenceFrame(ss[h])>> \o rest

\* the loop of send_all_presences over the sessions of the registry, taken
\* here in the order of their creation
RECURSIVE AllPresencesPackets(_, _, _)
AllPresencesPackets(ss, hs, to) ==
    IF hs = {} THEN <<>>
    ELSE LET h == CHOOSE x \in hs : \A y \in hs : x <= y
             rest == AllPresencesPackets(ss, hs \ {h}, to)
         IN IF SessionIsTarget(ss[h], to) THEN rest
            ELSE <<UserPresenceFrame(ss[h])>> \o rest

\* bookkeeping: the recipient has set its presence filter to None
Quiet(to) ==
    LET h == GetInner(indexes, to)
    IN IF h = None THEN FALSE
       ELSE sessions[h].filter_set /\ sessions[h].presence_filter = 0

\* the first half of the three operations: the request is checked and the
\* frames are collected under the registry's read lease
SendCollect(t, op, empty, has_to, to, packets) ==
    /\ Idle(t)
    /\ seq[t] < MaxPush
    /\ to.kind = "SessionId" => to.key <= created
    /\ IF empty
       THEN /\ resp' = Resp(t, op, "", None)
            /\ UNCHANGED <<pc, loc>>
       ELSE IF ~has_to
       THEN /\ resp' = Resp(t, op, "InvalidArgument", None)
            /\ UNCHANGED <<pc, loc>>
       ELSE /\ pc' = [pc EXCEPT ![t] = "send"]
            /\ loc' = [loc EXCEPT ![t] = [NoLoc EXCEPT !.buf = packets,
                                                       !.op = op, !.to = to,
                                                       !.quiet = Quiet(to)]]
            /\ UNCHANGED resp
    /\ seq' = [seq EXCEPT ![t] = seq[t] + 1]
    /\ UNCHANGED <<regVars, queueVars>>
    /\ UNCHANGED restVars

\* batch_send_user_stats_packet
BatchSendUserStatsPacket(t, user_queries, has_to, to) ==
    SendCollect(t, "batch_send_user_stats_packet", user_queries = <<>>,
                has_to, to,
                BatchUserStatsPackets(sessions, indexes, user_queries, to))

\* batch_send_presences
BatchSendPresences(t, user_queries, has_to, to) ==
    SendCollect(t, "batch_send_presences", user_queries = <<>>, has_to, to,
                BatchPresencesPackets(sessions, indexes, user_queries, to))

\* send_all_presences
SendAllPresences(t, has_to, to) ==
    SendCollect(t, "send_all_presences", FALSE, has_to, to,
                AllPresencesPackets(sessions, Range(indexes.session_id), to))

\* BanchoService::presence_request_all for the session with handle h: all
\* presences are sent to the session, addressed by its id
PresenceRequestAll(t, h) ==
    /\ h \in Range(indexes.session_id)
    /\ LET to == UserQuery("SessionId", sessions[h].id)
       IN SendCollect(t, "presence_request_all", FALSE, TRUE, to,
                      AllPresencesPackets(sessions, Range(indexes.session_id),
                                          to))

\* a packet that is pushed only when it has bytes
PushPacketsSome(q, frames) ==
    IF frames = <<>> THEN q ELSE Append(q, Packet(frames))

\* push_packet of one packet made of the collected frames
PushPackets(q, frames) == Append(q, Packet(frames))

\* the second half: enqueue_bancho_packets of the collected frames, as one
\* packet, to the recipient
SendEnqueue(t) ==
    /\ pc[t] = "send"
    /\ LET h == GetInner(indexes, loc[t].to)
       IN IF h = None
          THEN /\ resp' = Resp(t, loc[t].op, "SessionNotExists", None)
               /\ UNCHANGED queue
          ELSE /\ qlock[h] = None
               /\ queue' = [queue EXCEPT
                                ![h] = PushPackets(queue[h], loc[t].buf)]
               /\ resp' = [Resp(t, loc[t].op, "", h)
                            EXCEPT !.data = loc[t].buf]
    /\ pc' = [pc EXCEPT ![t] = "idle"]
    /\ loc' = [loc EXCEPT ![t] = NoLoc]
    /\ UNCHANGED <<regVars, qlock, drained, seq>>
    /\ UNCHANGED restVars

\* update_presence_filter
UpdatePresenceFilter(has_query, query, presence_filter) ==
    /\ LET filter == PresenceFilterFromI32(presence_filter)
           h == GetInner(indexes, query)
       IN IF ~has_query \/ ~filter.some
          THEN /\ resp' = Resp(None, "update_presence_filter",
                               "InvalidArgument", None)
               /\ UNCHANGED sessions
          ELSE IF h = None
          THEN /\ resp' = Resp(None, "update_presence_filter",
                               "SessionNotExists", None)
               /\ UNCHANGED sessions
          ELSE /\ sessions' = [sessions EXCEPT
                                  ![h].presence_filter = filter.val,
                                  ![h].filter_set = TRUE]
               /\ resp' = Resp(None, "update_presence_filter", "", h)
    /\ UNCHANGED <<created, indexes, live, queueVars, taskVars>>
    /\ UNCHANGED restVars

\* ------------------------------------------------------------ status
\* UserOnlineStatus::from_i32(..).unwrap_or_default(): Idle = 0 .. Direct = 13
UserOnlineStatusFromI32(n) == IF n \in 0..13 THEN n ELSE 0

\* GameMode::from_i32(..).unwrap_or_default(): the nine modes, Standard = 0
GameModeFromI32(n) == IF n \in (0..6) \cup {8, 12} THEN n ELSE 0

\* Mods::from: the mask of a u32 keeps every bit of it, known or not
ModsFrom(bits) == bits

\* BanchoStatus::update_all
UpdateAllKeepMode(status, online_status, description, beatmap_id, beatmap_md5, mods, mode) ==
    [online_status |-> online_status, description |-> description,
     beatmap_id |-> beatmap_id, beatmap_md5 |-> beatmap_md5, mods |-> mods,
     mode |-> status.mode]

UpdateAll(status, online_status, description, beatmap_id, beatmap_md5, mods, mode) ==
    [online_status |-> online_status, description |-> description,
     beatmap_id |-> beatmap_id, beatmap_md5 |-> beatmap_md5, mods |-> mods,
     mode |-> mode]

\* the status requests a client can make: one with every value in range, one
\* with an online status and a mode that are no variants of their enums
StatusRequests ==
    {[online_status |-> 2, description |-> 1, beatmap_id |-> 1,
      beatmap_md5 |-> 1, mods |-> 64, mode |-> 1],
     [online_status |-> 99, description |-> 2, beatmap_id |-> 2,
      beatmap_md5 |-> 2, mods |-> 0, mode |-> 7]}

\* update_user_bancho_status, first half: the session is resolved and its
\* status fields are written
UpdateUserBanchoStatus(t, has_query, query, request) ==
    /\ Idle(t)
    /\ seq[t] < MaxPush
    /\ LET h == GetInner(indexes, query)
       IN IF ~has_query
          THEN /\ resp' = Resp(t, "update_user_bancho_status",
                               "InvalidArgument", None)
               /\ UNCHANGED <<sessions, pc, loc>>
          ELSE IF h = None
          THEN /\ resp' = Resp(t, "update_user_bancho_status",
                               "SessionNotExists", None)
               /\ UNCHANGED <<sessions, pc, loc>>
          ELSE /\ sessions' =
                      [sessions EXCEPT ![h].bancho_status =
                          UpdateAll(@,
                                    UserOnlineStatusFromI32(
                                        request.online_status),
                                    request.description, request.beatmap_id,
                                    request.beatmap_md5,
                                    ModsFrom(request.mods),
                                    GameModeFromI32(request.mode))]
               /\ pc' = [pc EXCEPT ![t] = "status"]
               /\ loc' = [loc EXCEPT ![t] = [NoLoc EXCEPT !.h = h,
                                                          !.req = request]]
               /\ UNCHANGED resp
    /\ seq' = [seq EXCEPT ![t] = seq[t] + 1]
    /\ UNCHANGED <<created, indexes, live, queueVars>>
    /\ UNCHANGED restVars

\* broadcast_bancho_packets: the packet is pushed to every session of the
\* registry
Broadcast(que, idx, packet) ==
    [h \in Handles |->
        IF h \in Range(idx.session_id) THEN PushPacket(que[h], packet)
        ELSE que[h]]

\* update_user_bancho_status, second half: the session's stats frame is
\* broadcast
UpdateUserBanchoStatusBroadcast(t) ==
    /\ pc[t] = "status"
    /\ \A s \in Range(indexes.session_id) : qlock[s] = None
    /\ queue' = Broadcast(queue, indexes, UserStatsFrame(sessions[loc[t].h]))
    /\ resp' = Resp(t, "update_user_bancho_status", "", loc[t].h)
    /\ pc' = [pc EXCEPT ![t] = "idle"]
    /\ loc' = [loc EXCEPT ![t] = NoLoc]
    /\ UNCHANGED <<regVars, qlock, drained, seq>>
    /\ UNCHANGED restVars

\* the fields of a status in the order in which update_all stores them, and
\* in the order in which user_stats_packet loads them
StoreOrder ==
    <<"online_status", "description", "beatmap_id", "beatmap_md5", "mods",
      "mode">>
LoadOrder ==
    <<"online_status", "description", "beatmap_md5", "mods", "mode",
      "beatmap_id">>

\* the values update_user_bancho_status passes to update_all
ConvertRequest(request) ==
    UpdateAll(DefaultStatus, UserOnlineStatusFromI32(request.online_status),
              request.description, request.beatmap_id, request.beatmap_md5,
              ModsFrom(request.mods), GameModeFromI32(request.mode))

\* update_user_bancho_status on a runtime with several worker threads, the
\* start: the session is resolved and the request converted
UpdateUserBanchoStatusGet(t, has_query, query, request) ==
    /\ Idle(t)
    /\ seq[t] < MaxPush
    /\ LET h == GetInner(indexes, query)
       IN IF ~has_query
          THEN /\ resp' = Resp(t, "update_user_bancho_status",
                               "InvalidArgument", None)
               /\ UNCHANGED <<pc, loc>>
          ELSE IF h = None
          THEN /\ resp' = Resp(t, "update_user_bancho_status",
                               "SessionNotExists", None)
               /\ UNCHANGED <<pc, loc>>
          ELSE /\ pc' = [pc EXCEPT ![t] = "status_store"]
               /\ loc' = [loc EXCEPT ![t] =
                             [NoLoc EXCEPT !.h = h,
                                           !.req = ConvertRequest(request)]]
               /\ UNCHANGED resp
    /\ seq' = [seq EXCEPT ![t] = seq[t] + 1]
    /\ UNCHANGED <<regVars, queueVars>>
    /\ UNCHANGED restVars

\* BanchoStatus::update_all, one store: each field is a cell of its own and
\* is set by itself
UpdateAllStore(t) ==
    /\ pc[t] = "status_store"
    /\ LET h == loc[t].h
           field == StoreOrder[loc[t].next]
           last == loc[t].next = Len(StoreOrder)
       IN /\ sessions' = [sessions EXCEPT
                             ![h].bancho_status[field] = loc[t].req[field]]
          /\ loc' = [loc EXCEPT ![t].next = IF last THEN 1 ELSE @ + 1]
          /\ pc' = [pc EXCEPT ![t] = IF last THEN "status_load" ELSE @]
    /\ UNCHANGED <<created, indexes, live, queueVars, seq, resp>>
    /\ UNCHANGED restVars

\* Session::user_stats_packet, one load: each field is read by itself
UserStatsPacketLoad(t) ==
    /\ pc[t] = "status_load"
    /\ LET h == loc[t].h
           field == LoadOrder[loc[t].next]
           last == loc[t].next = Len(LoadOrder)
       IN /\ loc' = [loc EXCEPT
                        ![t].packet[field] = sessions[h].bancho_status[field],
                        ![t].next = IF last THEN 1 ELSE @ + 1]
          /\ pc' = [pc EXCEPT ![t] = IF last THEN "status_send" ELSE @]
    /\ UNCHANGED <<regVars, queueVars, seq, resp>>
    /\ UNCHANGED restVars

\* update_user_bancho_status, the end: the packet is broadcast
UpdateUserBanchoStatusSend(t) ==
    /\ pc[t] = "status_send"
    /\ \A s \in Range(indexes.session_id) : qlock[s] = None
    /\ LET packet == UserStatsFrame(
                         [sessions[loc[t].h]
                          EXCEPT !.bancho_status = loc[t].packet])
       IN /\ queue' = Broadcast(queue, indexes, packet)
          /\ resp' = [Resp(t, "update_user_bancho_status", "", loc[t].h)
                       EXCEPT !.data = <<packet>>]
    /\ pc' = [pc EXCEPT ![t] = "idle"]
    /\ loc' = [loc EXCEPT ![t] = NoLoc]
    /\ UNCHANGED <<regVars, qlock, drained, seq>>
    /\ UNCHANGED restVars

\* ------------------------------------------------------------ remote
\* the wire form of a user query and its reading by the peer: the user id
\* travels as a number, the other keys as strings
ToRawUserQuery(q) ==
    [query_type |-> q.kind,
     int_val |-> IF q.kind = "UserId" THEN q.key ELSE 0,
     string_val |-> IF q.kind = "UserId" THEN 0 ELSE q.key]

FromRawUserQuery(raw) ==
    UserQuery(raw.query_type,
              IF raw.query_type = "UserId" THEN raw.int_val
              ELSE raw.string_val)

\* the status with which the peer's handler answers a failed operation
StatusOf(err) ==
    CASE err = "SessionNotExists" -> "NotFound"
      [] err = "InvalidArgument" -> "InvalidArgument"
      [] OTHER -> "Internal"

\* the result of an operation: its error kind, or its response
Result(err, val, data) == [err |-> err, val |-> val, data |-> data]

\* check_user_session_exists, executed on the registry
CheckUserSessionExistsLocal(ss, idx, query) ==
    LET h == GetInner(idx, query)
    IN IF h = None THEN Result("SessionNotExists", None, <<>>)
       ELSE Result("", ss[h].user_id, <<>>)

\* get_user_session, executed on the registry
GetUserSessionLocal(ss, idx, query) ==
    LET h == GetInner(idx, query)
    IN IF h = None THEN Result("SessionNotExists", None, <<>>)
       ELSE Result("", ss[h].user_id,
                   <<ss[h].id, ss[h].user_id, ss[h].username,
                     ss[h].username_unicode>>)

\* check_user_session_exists, forwarded to a peer that executes it on the
\* registry: the status NotFound becomes SessionNotExists, any other status
\* an RpcError
CheckUserSessionExistsRemote(ss, idx, query) ==
    LET reply == CheckUserSessionExistsLocal(
                     ss, idx, FromRawUserQuery(ToRawUserQuery(query)))
    IN IF reply.err = "" THEN reply
       ELSE IF StatusOf(reply.err) = "NotFound"
       THEN Result("SessionNotExists", None, <<>>)
       ELSE Result("RpcError", None, <<>>)

\* get_user_session, forwarded to a peer: every status becomes an RpcError
GetUserSessionRemote(ss, idx, query) ==
    LET reply == GetUserSessionLocal(
                     ss, idx, FromRawUserQuery(ToRawUserQuery(query)))
    IN IF reply.err = "" THEN reply
       ELSE Result("RpcError", None, <<>>)

\* the two implementations of the session service
Impls == {"Local", "Remote"}

\* a lookup made through one of the implementations
Lookup(t, op, r) ==
    /\ Idle(t)
    /\ resp' = [Resp(t, op, r.err, r.val) EXCEPT !.data = r.data]
    /\ UNCHANGED <<regVars, queueVars, taskVars>>
    /\ UNCHANGED restVars

\* Session::update_active: the session is active now
UpdateActiveNever(session) == session

UpdateActive(session) == [session EXCEPT !.last_active = 0]

\* check_user_session_exists: the session that is found is marked active
\* (by the peer, when the call is forwarded)
CheckUserSessionExists(t, impl, query) ==
    /\ Idle(t)
    /\ LET r == IF impl = "Local"
                THEN CheckUserSessionExistsLocal(sessions, indexes, query)
                ELSE CheckUserSessionExistsRemote(sessions, indexes, query)
           h == GetInner(indexes, query)
       IN /\ resp' = [Resp(t, "check_user_session_exists", r.err, r.val)
                       EXCEPT !.data = r.data]
          /\ sessions' = IF h = None THEN sessions
                         ELSE [sessions EXCEPT
                                  ![h] = [UpdateActive(@)
                                          EXCEPT !.last_check = 0]]
    /\ UNCHANGED <<created, indexes, live, queueVars, taskVars>>
    /\ UNCHANGED restVars

\* time passes: every session has been inactive for one unit more
Elapse(n) == IF n > Ttl THEN n ELSE n + 1

Tick ==
    /\ sessions' = [h \in Handles |->
                      IF h > created THEN sessions[h]
                      ELSE [sessions[h] EXCEPT
                               !.last_active = Elapse(@),
                               !.last_check = Elapse(@)]]
    /\ UNCHANGED <<created, indexes, live, queueVars, taskVars, resp>>
    /\ UNCHANGED restVars

\* the sessions of the registry that have been inactive for longer than Ttl
Deactive(ss, idx) == {h \in Range(idx.session_id) : ss[h].last_active > Ttl}

RECURSIVE DeleteAll(_, _, _)
DeleteAll(idx, ss, hs) ==
    IF hs = {} THEN idx
    ELSE LET h == CHOOSE x \in hs : TRUE
         IN DeleteAll(DeleteInner(idx, ss[h]), ss, hs \ {h})

\* the background sweep: every session that has been inactive for longer
\* than Ttl is removed from the registry
Sweep ==
    /\ WriteLeaseFree
    /\ LET hs == Deactive(sessions, indexes)
       IN /\ indexes' = DeleteAll(indexes, sessions, hs)
          /\ live' = live \ hs
    /\ UNCHANGED <<sessions, created, queueVars, taskVars, resp>>
    /\ UNCHANGED restVars

GetUserSession(t, impl, query) ==
    Lookup(t, "get_user_session",
           IF impl = "Local"
           THEN GetUserSessionLocal(sessions, indexes, query)
           ELSE GetUserSessionRemote(sessions, indexes, query))

\* ------------------------------------------------------------ channels
ChannelJoinFrame(name) == Frame("ChannelJoin", name, 0, 0)
ChannelInfoFrame(name, count) == Frame("ChannelInfo", name, count, 0)
ChannelKickFrame(name) == Frame("ChannelKick", name, 0, 0)
SendMessageFrameSenderName(sender_id, target, content) ==
    Frame("SendMessage", sender_id, UsernameOf(sender_id), content)

SendMessageFrame(sender_id, target, content) ==
    Frame("SendMessage", sender_id, target, content)

ChannelQuery(kind, key) == [kind |-> kind, key |-> key]

\* the queries a caller can form: by id or by name, of a channel that exists
\* or of one that does not
ChannelQueries ==
    {ChannelQuery("ChannelId", c) : c \in 1..(NumChannels + 1)}
        \cup {ChannelQuery("ChannelName", ChannelNameOf(c)) :
                 c \in 1..(NumChannels + 1)}

\* lookup of a channel in the channel registry
GetChannel(q) ==
    CASE q.kind = "ChannelId" -> IF q.key \in Channels THEN q.key ELSE None
      [] q.kind = "ChannelName" ->
             IF \E c \in Channels : ChannelNameOf(c) = q.key
             THEN CHOOSE c \in Channels : ChannelNameOf(c) = q.key
             ELSE None

\* Channels::add_user: the user joins the member set of each listed platform
\* and the channel joins the user's reverse map
AddUserMembers(m, c, u, platforms) ==
    [m EXCEPT ![c] = [p \in Platforms |->
                         IF p \in platforms THEN m[c][p] \cup {u}
                         ELSE m[c][p]]]

AddUserChannels(uc, c, u, platforms) ==
    [uc EXCEPT ![u] = [p \in Platforms |->
                          IF p \in platforms THEN uc[u][p] \cup {c}
                          ELSE uc[u][p]]]

\* a removal that takes the user out of the channel on every platform
RemoveUserMembersAll(m, c, u, platforms) ==
    [m EXCEPT ![c] = [p \in Platforms |-> m[c][p] \ {u}]]

\* Channels::remove_user_platforms
RemoveUserMembers(m, c, u, platforms) ==
    [m EXCEPT ![c] = [p \in Platforms |->
                         IF p \in platforms THEN m[c][p] \ {u}
                         ELSE m[c][p]]]

RemoveUserChannelsNone(uc, c, u, platforms) == uc

RemoveUserChannels(uc, c, u, platforms) ==
    [uc EXCEPT ![u] = [p \in Platforms |->
                          IF p \in platforms THEN uc[u][p] \ {c}
                          ELSE uc[u][p]]]

\* Channel::session_count
SessionCount(m, c, p) == Cardinality(m[c][p])

\* ------------------------------------------------------------ message log
\* CachedAtomic::new: nothing is cached
NoInfo == [some |-> FALSE, cache |-> <<>>, age |-> 0]

EmptyMessageQueue == [messages |-> <<>>, last_msg_id |-> 0]

Message(id, packet) == [id |-> id, packet |-> packet]

\* MessageQueue::push_message: the message gets the next id; when the log is
\* over capacity its oldest entry is dropped
PushMessageRenumber(mq, packet) ==
    LET id == mq.last_msg_id + 1
        all == Append(mq.messages, Message(id, packet))
        kept == IF Len(all) > LogCapacity THEN Tail(all) ELSE all
    IN [messages |-> IF Len(all) > LogCapacity
                     THEN [i \in 1..Len(kept) |->
                              Message(id - 1 - Len(kept) + i, kept[i].packet)]
                     ELSE all,
        last_msg_id |-> id]

PushMessage(mq, packet) ==
    LET id == mq.last_msg_id + 1
        all == Append(mq.messages, Message(id, packet))
    IN [messages |-> IF Len(all) > LogCapacity THEN Tail(all) ELSE all,
        last_msg_id |-> id]

\* MessageQueue::receive_messages without a count limit: the retained
\* messages above the start id, and the id of the last of them
ReceiveMessages(mq, start) ==
    LET ms == SelectSeq(mq.messages, LAMBDA m : m.id > start)
    IN [some |-> ms # <<>>, messages |-> ms,
        last_msg_id |-> IF ms = <<>> THEN start ELSE ms[Len(ms)].id]

\* the cursor a session starts from in a channel it has not read yet
DefaultReadProcess == 0

\* the packets of a sequence of messages
RECURSIVE PacketsOf(_)
PacketsOf(ms) ==
    IF ms = <<>> THEN <<>> ELSE <<Head(ms).packet>> \o PacketsOf(Tail(ms))

RECURSIVE IdsOf(_)
IdsOf(ms) == IF ms = <<>> THEN <<>> ELSE <<Head(ms).id>> \o IdsOf(Tail(ms))

\* ------------------------------------------------------------ chat service
\* the sessions of the chat service's store
ChatSessions == Range(chat_indexes.session_id)

\* channel_handle_for_bancho_user: the notification pushed to the user's
\* chat session
ChannelHandleForBanchoUserNothing(cq, h, c) == cq

ChannelHandleForBanchoUser(cq, h, c) ==
    [cq EXCEPT ![h] = PushPacket(cq[h], ChannelJoinFrame(ChannelNameOf(c)))]

\* channel_update_for_bancho: the channel's bancho member count, appended to
\* the channel's log
ChannelUpdatePacket(m, c) ==
    ChannelInfoFrame(ChannelNameOf(c), SessionCount(m, c, "Bancho"))

ChannelUpdateForBancho(mq, m, c) ==
    [mq EXCEPT ![c] = PushMessage(mq[c], ChannelUpdatePacket(m, c))]

\* the message appended last to a log
LastMessage(q) == q.messages[Len(q.messages)]

\* bookkeeping: message msg of channel c is now above the cursor of every
\* chat session whose user is a bancho member of c
Owe(ow, m, c, msg) ==
    [h \in Handles |->
        IF h \in ChatSessions /\ sessions[h].user_id \in m[c]["Bancho"]
        THEN [ow[h] EXCEPT ![c] = @ \cup {msg}]
        ELSE ow[h]]

\* bookkeeping: user u has left channel c
Forget(ow, u, c) ==
    [h \in Handles |->
        IF sessions[h].user_id = u THEN [ow[h] EXCEPT ![c] = {}] ELSE ow[h]]

\* what becomes of a join or a leave with the bancho platform listed: the
\* notification needs the user's chat session, and stops the call with a
\* panic when there is none
BanchoOutcome(user_id, platforms) ==
    IF "Bancho" \notin platforms THEN "skip"
    ELSE IF GetInner(chat_indexes, UserQuery("UserId", user_id)) = None
         THEN "panic"
         ELSE "notify"

\* the two bancho calls of a join or a leave, m being the membership after it
BanchoHandleAndUpdate(c, user_id, platforms, m, ow) ==
    LET h == GetInner(chat_indexes, UserQuery("UserId", user_id))
        mq == ChannelUpdateForBancho(message_queue, m, c)
    IN IF BanchoOutcome(user_id, platforms) = "notify"
       THEN /\ message_queue[c].last_msg_id < MaxMsgs
            /\ chat_queue' = ChannelHandleForBanchoUser(chat_queue, h, c)
            /\ message_queue' = mq
            /\ owed' = Owe(ow, m, c, LastMessage(mq[c]))
            /\ UNCHANGED public_info
       ELSE /\ owed' = ow
            /\ UNCHANGED <<message_queue, public_info, chat_queue>>

\* the body of add_user_into_channel for an existing channel
AddUser(c, user_id, platforms) ==
    LET h == GetInner(chat_indexes, UserQuery("UserId", user_id))
        m == AddUserMembers(members, c, user_id, platforms)
    IN /\ members' = m
       /\ user_channels' =
              AddUserChannels(user_channels, c, user_id, platforms)
       /\ BanchoHandleAndUpdate(c, user_id, platforms, m, owed)
       /\ due_join' = IF BanchoOutcome(user_id, platforms) = "notify"
                      THEN [due_join EXCEPT ![h] = @ \cup {c}]
                      ELSE due_join
       /\ UNCHANGED <<chat_indexes, channel_read_process, pulled, api_clients>>

\* the result of a join or a leave as its caller sees it
ChannelOpResp(op, user_id, platforms) ==
    LET h == GetInner(chat_indexes, UserQuery("UserId", user_id))
    IN CASE BanchoOutcome(user_id, platforms) = "skip" ->
                Resp(None, op, "", None)
         [] BanchoOutcome(user_id, platforms) = "panic" ->
                Resp(None, op, "panic", None)
         [] BanchoOutcome(user_id, platforms) = "notify" ->
                Resp(None, op, "", h)

\* add_user_into_channel
AddUserIntoChannel(channel_query, user_id, platforms) ==
    /\ LET c == GetChannel(channel_query)
       IN IF c = None
          THEN /\ resp' = Resp(None, "add_user", "ChannelNotExists", None)
               /\ UNCHANGED restVars
          ELSE /\ AddUser(c, user_id, platforms)
               /\ resp' = ChannelOpResp("add_user", user_id, platforms)
    /\ UNCHANGED <<regVars, queueVars, taskVars>>

\* remove_user_platforms_from_channel
RemoveUserPlatformsFromChannel(channel_query, user_id, platforms) ==
    /\ LET c == GetChannel(channel_query)
           m == RemoveUserMembers(members, c, user_id, platforms)
       IN IF c = None
          THEN /\ resp' = Resp(None, "remove_user", "ChannelNotExists", None)
               /\ UNCHANGED restVars
          ELSE /\ members' = m
               /\ user_channels' =
                      RemoveUserChannels(user_channels, c, user_id, platforms)
               /\ BanchoHandleAndUpdate(
                      c, user_id, platforms, m,
                      IF "Bancho" \in platforms THEN Forget(owed, user_id, c)
                      ELSE owed)
               /\ resp' = ChannelOpResp("remove_user", user_id, platforms)
               /\ UNCHANGED <<chat_indexes, channel_read_process, pulled, api_clients,
                              due_join>>
    /\ UNCHANGED <<regVars, queueVars, taskVars>>

\* remove_user_from_channel: the user leaves the channel on every platform
\* and the two bancho calls are made whatever the platforms were
RemoveUserFromChannel(channel_query, user_id) ==
    /\ LET c == GetChannel(channel_query)
           m == RemoveUserMembers(members, c, user_id, Platforms)
       IN IF c = None
          THEN /\ resp' = Resp(None, "remove_user_from_channel",
                               "ChannelNotExists", None)
               /\ UNCHANGED restVars
          ELSE /\ members' = m
               /\ user_channels' =
                      RemoveUserChannels(user_channels, c, user_id, Platforms)
               /\ BanchoHandleAndUpdate(c, user_id, Platforms, m,
                                        Forget(owed, user_id, c))
               /\ resp' = ChannelOpResp("remove_user_from_channel", user_id,
                                        Platforms)
               /\ UNCHANGED <<chat_indexes, channel_read_process, pulled, api_clients,
                              due_join>>
    /\ UNCHANGED <<regVars, queueVars, taskVars>>

\* a message target: a channel or a user
MessageTarget(type, query) == [type |-> type, query |-> query]

\* send_message; the bancho platform is served by process_bancho_message,
\* the other platforms by nothing
SendMessage(sender_id, message, has_target, target, platforms) ==
    /\ LET all == IF platforms = {} THEN Platforms ELSE platforms
           c == GetChannel(target.query)
           h == GetInner(chat_indexes, target.query)
           target_name == IF target.query.kind \in {"UserId", "SessionId"}
                          THEN sessions[h].username
                          ELSE target.query.key
           mq == [message_queue EXCEPT ![c] =
                     PushMessage(@, SendMessageFrame(sender_id,
                                                     ChannelNameOf(c),
                                                     message))]
       IN IF ~has_target
          THEN /\ resp' = Resp(None, "send_message", "InvalidArgument", None)
               /\ UNCHANGED restVars
          ELSE IF "Bancho" \notin all
          THEN /\ resp' = Resp(None, "send_message", "", None)
               /\ UNCHANGED restVars
          ELSE IF target.type = "Channel"
          THEN IF c = None
               THEN /\ resp' = Resp(None, "send_message", "panic", None)
                    /\ UNCHANGED restVars
               ELSE /\ message_queue[c].last_msg_id < MaxMsgs
                    /\ message_queue' = mq
                    /\ owed' = Owe(owed, members, c, LastMessage(mq[c]))
                    /\ resp' = Resp(None, "send_message", "", None)
                    /\ UNCHANGED <<members, user_channels, public_info,
                                   chatSessionVars, due_join, pulled,
                                   api_clients>>
          ELSE IF h = None
               THEN /\ resp' = Resp(None, "send_message", "panic", None)
                    /\ UNCHANGED restVars
               ELSE /\ Len(chat_queue[h]) < MaxPush
                    /\ chat_queue' =
                           [chat_queue EXCEPT ![h] =
                               PushPacket(@, SendMessageFrame(
                                                 sender_id, target_name,
                                                 message))]
                    /\ resp' = Resp(None, "send_message", "", None)
                    /\ UNCHANGED <<channelVars, chat_indexes,
                                   channel_read_process, ghostVars,
                                   api_clients>>
    /\ UNCHANGED <<regVars, queueVars, taskVars>>

\* pull_chat_packets, one turn of the loop over the user's bancho channels:
\* the messages above the cursor are appended and the cursor is moved to the
\* last of them
NoPulls == [c \in Channels |-> <<>>]

PullChannelKeepCursor(acc, mq, c) ==
    LET start == IF c \in DOMAIN acc.process THEN acc.process[c]
                 ELSE DefaultReadProcess
        r == ReceiveMessages(mq[c], start)
    IN IF GetChannel(ChannelQuery("ChannelId", c)) # None /\ r.some
       THEN [data |-> acc.data \o PacketsOf(r.messages),
             process |-> acc.process,
             got |-> [acc.got EXCEPT ![c] = IdsOf(r.messages)]]
       ELSE acc

PullChannel(acc, mq, c) ==
    LET start == IF c \in DOMAIN acc.process THEN acc.process[c]
                 ELSE DefaultReadProcess
        r == ReceiveMessages(mq[c], start)
    IN IF GetChannel(ChannelQuery("ChannelId", c)) # None /\ r.some
       THEN [data |-> acc.data \o PacketsOf(r.messages),
             process |-> MapInsert(acc.process, c, r.last_msg_id),
             got |-> [acc.got EXCEPT ![c] = IdsOf(r.messages)]]
       ELSE acc

\* the loop, in ascending order of channel id
RECURSIVE PullChannels(_, _, _)
PullChannelsNone(ids, mq, acc) == acc

PullChannels(ids, mq, acc) ==
    IF ids = {} THEN acc
    ELSE LET c == CHOOSE x \in ids : \A y \in ids : x <= y
         IN PullChannels(ids \ {c}, mq, PullChannel(acc, mq, c))

\* pull_chat_packets
PullChatPackets(query) ==
    /\ LET h == GetInner(chat_indexes, query)
           records == user_channels[sessions[h].user_id]
           data == DequeueAllPackets(<<>>, chat_queue[h])
           acc == PullChannels(records["Bancho"], message_queue,
                               [data |-> data,
                                process |-> channel_read_process[h],
                                got |-> NoPulls])
       IN IF h = None
          THEN /\ resp' = Resp(None, "pull", "panic", None)
               /\ UNCHANGED restVars
          ELSE /\ chat_queue' = [chat_queue EXCEPT ![h] = <<>>]
               /\ channel_read_process' =
                      [channel_read_process EXCEPT ![h] = acc.process]
               /\ UNCHANGED api_clients
               /\ pulled' = [pulled EXCEPT ![h] =
                                [c \in Channels |-> @[c] \o acc.got[c]]]
               /\ owed' = [owed EXCEPT ![h] = [c \in Channels |-> {}]]
               /\ due_join' = [due_join EXCEPT ![h] = {}]
               /\ resp' = [Resp(None, "pull", "", h) EXCEPT !.data = acc.data]
               /\ UNCHANGED <<channelVars, chat_indexes>>
    /\ UNCHANGED <<regVars, queueVars, taskVars>>

\* ------------------------------------------------------------ dispatch
\* the payload of a client frame: absent, undecodable, or a string
Payload(kind, name) == [kind |-> kind, name |-> name]

Payloads ==
    {Payload("none", None), Payload("invalid", None)}
        \cup {Payload("string", ChannelNameOf(c)) : c \in 1..(NumChannels + 1)}

\* channel_update_notify without a target list: the frame is pushed to every
\* session of the registry
NotifyAllUnicode(que, idx, packet) ==
    [h \in Handles |->
        IF h \in Range(idx.username_unicode) THEN PushPacket(que[h], packet)
        ELSE que[h]]

NotifyAll(que, idx, packet) ==
    [h \in Handles |->
        IF h \in Range(idx.session_id) THEN PushPacket(que[h], packet)
        ELSE que[h]]

\* a u32 counter cast to the i16 of the ChannelInfo frame
AsI16(n) == ((n + 32768) % 65536) - 32768

\* channel_update_notify with a target list: the frame is pushed to the
\* session of each query in turn, and the queries that resolve to no session
\* are collected
RECURSIVE NotifyTargets(_, _, _, _)
\* a loop that puts each unresolved query in front of the ones before it
NotifyTargetsFront(acc, idx, notify_targets, packet) ==
    IF notify_targets = <<>> THEN acc
    ELSE LET user_query == Head(notify_targets)
             h == GetInner(idx, user_query)
         IN NotifyTargets(
                IF h # None
                THEN [acc EXCEPT !.que[h] = PushPacket(@, packet)]
                ELSE [acc EXCEPT !.fails = <<user_query>> \o @],
                idx, Tail(notify_targets), packet)

NotifyTargets(acc, idx, notify_targets, packet) ==
    IF notify_targets = <<>> THEN acc
    ELSE LET user_query == Head(notify_targets)
             h == GetInner(idx, user_query)
         IN NotifyTargets(
                IF h # None
                THEN [acc EXCEPT !.que[h] = PushPacket(@, packet)]
                ELSE [acc EXCEPT !.fails = Append(@, user_query)],
                idx, Tail(notify_targets), packet)

\* channel_update_notify
ChannelUpdateNotify(t, has_targets, notify_targets, has_channel_info, has_counter, channel_info) ==
    /\ Idle(t)
    /\ seq[t] < MaxPush
    /\ LET packet == ChannelInfoFrame(channel_info.name,
                                      AsI16(channel_info.counter.bancho))
           op == IF has_targets THEN "channel_update_notify_to"
                 ELSE "channel_update_notify"
           to == NotifyTargets([que |-> queue, fails |-> <<>>], indexes,
                               notify_targets, packet)
       IN IF ~has_channel_info \/ ~has_counter
          THEN /\ resp' = Resp(t, op, "InvalidArgument", None)
               /\ UNCHANGED queue
          ELSE /\ \A s \in Range(indexes.session_id) : qlock[s] = None
               /\ IF has_targets
                  THEN /\ queue' = to.que
                       /\ resp' = [Resp(t, op, "", None)
                                    EXCEPT !.data = to.fails]
                  ELSE /\ queue' = NotifyAll(queue, indexes, packet)
                       /\ resp' = Resp(t, op, "", None)
    /\ seq' = [seq EXCEPT ![t] = seq[t] + 1]
    /\ UNCHANGED <<regVars, qlock, drained, pc, loc>>
    /\ UNCHANGED restVars

\* the channel info returned by a join or a leave: the channel's name and
\* its bancho member count, m being the membership after the operation
ChannelInfoOf(m, c) ==
    [name |-> ChannelNameOf(c),
     counter |-> [bancho |-> SessionCount(m, c, "Bancho")]]

\* read_channel_name
ReadChannelName(payload) ==
    CASE payload.kind = "none" ->
             [err |-> "PacketPayloadNotExists", name |-> None]
      [] payload.kind = "invalid" ->
             [err |-> "InvalidPacketPayload", name |-> None]
      [] payload.kind = "string" -> [err |-> "", name |-> payload.name]

\* user_channel_join, dispatched for the session with handle h
UserChannelJoin(h, payload) ==
    /\ h \in Range(indexes.session_id)
    /\ LET user_id == sessions[h].user_id
           channel_name == ReadChannelName(payload)
           c == GetChannel(ChannelQuery("ChannelName", channel_name.name))
           channel_info ==
               ChannelInfoOf(AddUserMembers(members, c, user_id, {"Bancho"}),
                             c)
       IN IF channel_name.err # ""
          THEN /\ resp' = Resp(None, "channel_join", channel_name.err, h)
               /\ UNCHANGED <<restVars, queue>>
          ELSE IF c = None
          THEN /\ resp' = Resp(None, "channel_join", "Anyhow", h)
               /\ UNCHANGED <<restVars, queue>>
          ELSE /\ AddUser(c, user_id, {"Bancho"})
               /\ IF BanchoOutcome(user_id, {"Bancho"}) = "panic"
                  THEN /\ resp' = Resp(None, "channel_join", "panic", h)
                       /\ UNCHANGED queue
                  ELSE /\ \A s \in Range(indexes.session_id) :
                              qlock[s] = None
                       /\ queue' = NotifyAll(
                              queue, indexes,
                              ChannelInfoFrame(channel_info.name,
                                               channel_info.counter.bancho))
                       /\ resp' = [Resp(None, "channel_join", "", h)
                                    EXCEPT !.data = <<ChannelJoinFrame(
                                                        channel_info.name)>>]
    /\ UNCHANGED <<regVars, qlock, drained, taskVars>>

\* user_channel_part, dispatched for the session with handle h
UserChannelPart(h, payload) ==
    /\ h \in Range(indexes.session_id)
    /\ LET user_id == sessions[h].user_id
           channel_name == ReadChannelName(payload)
           c == GetChannel(ChannelQuery("ChannelName", channel_name.name))
           m == RemoveUserMembers(members, c, user_id, {"Bancho"})
           channel_info == ChannelInfoOf(m, c)
       IN IF channel_name.err # ""
          THEN /\ resp' = Resp(None, "channel_part", channel_name.err, h)
               /\ UNCHANGED <<restVars, queue>>
          ELSE IF c = None
          THEN /\ resp' = Resp(None, "channel_part", "Anyhow", h)
               /\ UNCHANGED <<restVars, queue>>
          ELSE /\ members' = m
               /\ user_channels' =
                      RemoveUserChannels(user_channels, c, user_id,
                                         {"Bancho"})
               /\ BanchoHandleAndUpdate(c, user_id, {"Bancho"}, m,
                                        Forget(owed, user_id, c))
               /\ UNCHANGED <<chat_indexes, channel_read_process, pulled, api_clients,
                              due_join>>
               /\ IF BanchoOutcome(user_id, {"Bancho"}) = "panic"
                  THEN /\ resp' = Resp(None, "channel_part", "panic", h)
                       /\ UNCHANGED queue
                  ELSE /\ \A s \in Range(indexes.session_id) :
                              qlock[s] = None
                       /\ queue' = NotifyAll(
                              queue, indexes,
                              ChannelInfoFrame(channel_info.name,
                                               channel_info.counter.bancho))
                       /\ resp' = [Resp(None, "channel_part", "", h)
                                    EXCEPT !.data = <<ChannelKickFrame(
                                                        channel_info.name)>>]
    /\ UNCHANGED <<regVars, qlock, drained, taskVars>>

\* ------------------------------------------------------------ gateway
\* a frame sent by the client: its opcode and its payload
ClientPacket(id, payload) == [id |-> id, payload |-> payload]

\* the frames a client can put in a batch: a channel join with each kind of
\* payload, and a frame with an opcode that no handler is registered for
ClientPackets ==
    {ClientPacket("OSU_USER_CHANNEL_JOIN", p) : p \in Payloads}
        \cup {ClientPacket("UNKNOWN", Payload("none", None))}

\* the batches of a request: one frame or two
Batches ==
    {<<p>> : p \in ClientPackets}
        \cup {<<p1, p2>> : p1 \in ClientPackets, p2 \in ClientPackets}

\* a request with a session token: the session is looked up and the frames
\* of the body are taken in
BanchoPost(t, h, packets) ==
    /\ Idle(t)
    /\ seq[t] < MaxPush
    /\ seq' = [seq EXCEPT ![t] = seq[t] + 1]
    /\ IF h \in Range(indexes.session_id)
       THEN /\ pc' = [pc EXCEPT ![t] = "batch"]
            /\ loc' = [loc EXCEPT ![t] = [NoLoc EXCEPT !.h = h,
                                                       !.buf = packets]]
            /\ UNCHANGED resp
       ELSE /\ resp' = Resp(t, "bancho_post", "SessionNotExists", None)
            /\ UNCHANGED <<pc, loc>>
    /\ UNCHANGED <<regVars, queueVars>>
    /\ UNCHANGED restVars

\* the request goes on with its next frame
NextPacket(t) ==
    /\ loc' = [loc EXCEPT ![t].buf = Tail(@)]
    /\ UNCHANGED <<pc, resp>>

\* the task that serves the request panics: the request ends there, without
\* a response
Panics(t) ==
    /\ resp' = Resp(t, "bancho_post", "panic", loc[t].h)
    /\ pc' = [pc EXCEPT ![t] = "idle"]
    /\ loc' = [loc EXCEPT ![t] = NoLoc]

\* one frame of the batch is dispatched.  A frame without a handler is
\* logged and dropped, a handler's error is logged, and the request goes on;
\* user_channel_join unwraps the result of channel_update_notify, which is
\* an RpcError when the session service is a peer that cannot be reached
\* (rpc_ok false)
ProcessBanchoPacket(t, rpc_ok) ==
    /\ pc[t] = "batch"
    /\ loc[t].buf # <<>>
    /\ LET packet == Head(loc[t].buf)
           h == loc[t].h
           user_id == sessions[h].user_id
           channel_name == ReadChannelName(packet.payload)
           c == GetChannel(ChannelQuery("ChannelName", channel_name.name))
           channel_info ==
               ChannelInfoOf(AddUserMembers(members, c, user_id, {"Bancho"}),
                             c)
       IN IF packet.id = "UNKNOWN" \/ channel_name.err # "" \/ c = None
          THEN /\ NextPacket(t)
               /\ UNCHANGED <<restVars, queue>>
          ELSE /\ AddUser(c, user_id, {"Bancho"})
               /\ IF BanchoOutcome(user_id, {"Bancho"}) = "panic" \/ ~rpc_ok
                  THEN /\ Panics(t)
                       /\ UNCHANGED queue
                  ELSE /\ \A s \in Range(indexes.session_id) :
                              qlock[s] = None
                       /\ queue' = NotifyAll(
                              queue, indexes,
                              ChannelInfoFrame(channel_info.name,
                                               channel_info.counter.bancho))
                       /\ loc' = [loc EXCEPT
                                     ![t].buf = Tail(@),
                                     ![t].out = Append(@, ChannelJoinFrame(
                                                    channel_info.name))]
                       /\ UNCHANGED <<pc, resp>>
    /\ UNCHANGED <<regVars, qlock, drained, seq>>

\* every frame is dispatched: the response is made of the handlers' frames
\* and the drained queue of the session
BanchoPostRespond(t) ==
    /\ pc[t] = "batch"
    /\ loc[t].buf = <<>>
    /\ LET h == loc[t].h
           data == DequeueAllPackets(<<>>, queue[h])
       IN /\ qlock[h] = None
          /\ queue' = [queue EXCEPT ![h] = <<>>]
          /\ drained' = [drained EXCEPT ![h] = @ \o data]
          /\ resp' = [Resp(t, "bancho_post", "", h)
                       EXCEPT !.data = loc[t].out \o data]
    /\ pc' = [pc EXCEPT ![t] = "idle"]
    /\ loc' = [loc EXCEPT ![t] = NoLoc]
    /\ UNCHANGED <<regVars, qlock, seq>>
    /\ UNCHANGED restVars

\* user_logout, dispatched for the session with handle h: the session is
\* deleted by its session id
UserLogout(t, h) ==
    /\ h \in Range(indexes.session_id)
    /\ DeleteUserSession(t, UserQuery("SessionId", sessions[h].id))

\* ------------------------------------------------------------ snapshot
\* the serialized form of a session's bancho extension (derive(Serialize) of
\* BanchoExtend): every field is written but packets_queue, which is marked
\* skip_serializing
SerializeBanchoExtend(session, packets_queue) ==
    [presence_filter |-> session.presence_filter,
     bancho_status |-> session.bancho_status]

\* the serialized form of one session
SerializeSession(session, packets_queue) ==
    [id |-> session.id, user_id |-> session.user_id,
     username |-> session.username,
     username_unicode |-> session.username_unicode,
     extends |-> SerializeBanchoExtend(session, packets_queue)]

\* the blob written at shutdown: the serialized sessions of the registry
SaveServiceSnapshot(ss, idx, que) ==
    {SerializeSession(ss[h], que[h]) : h \in Range(idx.session_id)}

\* the session built from its serialized form; what the form does not hold
\* takes its default
DeserializeSession(data) ==
    [id |-> data.id, user_id |-> data.user_id, username |-> data.username,
     username_unicode |-> data.username_unicode,
     presence_filter |-> data.extends.presence_filter, filter_set |-> FALSE,
     bancho_status |-> data.extends.bancho_status,
     last_active |-> 0, last_check |-> 0]

\* the handle under which a restored session is kept: sessions are
\* numbered in the order of their ids
HandleOfData(data) == data.id

\* the registry rebuilt from a blob: every session of it is inserted into
\* the four indexes
RECURSIVE RestoreIndexes(_, _)
RestoreIndexes(idx, blob) ==
    IF blob = {} THEN idx
    ELSE LET data == CHOOSE d \in blob : TRUE
         IN RestoreIndexes(InsertInner(idx, DeserializeSession(data),
                                       HandleOfData(data)),
                           blob \ {data})

\* the service is stopped, writes its snapshot, and is started again from
\* it: no operation is running, and the new process holds what the blob held
SnapshotRestore(t) ==
    /\ \A x \in Tasks : Idle(x)
    /\ LET blob == SaveServiceSnapshot(sessions, indexes, queue)
       IN /\ indexes' = RestoreIndexes(EmptyIndexes, blob)
          /\ sessions' = [h \in Handles |->
                            IF \E d \in blob : HandleOfData(d) = h
                            THEN DeserializeSession(
                                     CHOOSE d \in blob : HandleOfData(d) = h)
                            ELSE sessions[h]]
          /\ live' = {HandleOfData(d) : d \in blob}
          /\ queue' = [h \in Handles |-> <<>>]
          /\ qlock' = [h \in Handles |-> None]
    /\ resp' = Resp(t, "restore", "", None)
    /\ UNCHANGED <<created, drained, taskVars>>
    /\ UNCHANGED restVars

\* ------------------------------------------------------------ packet targets
\* BanchoPacketTarget: one of the four user variants or one of the two
\* channel variants
BanchoPacketTargets == AllQueries \cup ChannelQueries

\* TryInto<UserQuery> for BanchoPacketTarget: the user variants convert
TryIntoUserQueryIdOnly(target) ==
    [ok |-> target.kind \in {"SessionId", "UserId"}, query |-> target]

TryIntoUserQuery(target) ==
    [ok |-> target.kind \in QueryKinds, query |-> target]

\* enqueue_bancho_packets with any target: a user variant pushes onto the
\* session's queue; the branch of the channel variants is todo!(), which
\* panics
EnqueueBanchoPacketsTo(t, has_target, target) ==
    /\ Idle(t)
    /\ seq[t] < MaxPush
    /\ LET user_query == TryIntoUserQuery(target)
           h == GetInner(indexes, user_query.query)
           packet == DataFrame(t, seq[t] + 1)
       IN IF ~has_target
          THEN /\ resp' = Resp(t, "enqueue_to", "InvalidArgument", None)
               /\ UNCHANGED queue
          ELSE IF ~user_query.ok
          THEN /\ resp' = [Resp(t, "enqueue_to", "panic", None)
                           EXCEPT !.old = GetChannel(target)]
               /\ UNCHANGED queue
          ELSE IF h = None
          THEN /\ resp' = Resp(t, "enqueue_to", "SessionNotExists", None)
               /\ UNCHANGED queue
          ELSE /\ qlock[h] = None
               /\ queue' = [queue EXCEPT ![h] = PushPacket(queue[h], packet)]
               /\ resp' = Resp(t, "enqueue_to", "", h)
    /\ seq' = [seq EXCEPT ![t] = seq[t] + 1]
    /\ UNCHANGED <<regVars, qlock, drained, pc, loc>>
    /\ UNCHANGED restVars

\* batch_enqueue_bancho_packets, the call: the frame is wrapped and the read
\* lease of the registry is taken
BatchEnqueueBanchoPackets(t, targets) ==
    /\ Idle(t)
    /\ seq[t] < MaxPush
    /\ seq' = [seq EXCEPT ![t] = seq[t] + 1]
    /\ pc' = [pc EXCEPT ![t] = "batch_enqueue"]
    /\ loc' = [loc EXCEPT ![t] = [NoLoc EXCEPT
                                     !.targets = targets,
                                     !.buf = <<DataFrame(t, seq[t] + 1)>>]]
    /\ UNCHANGED <<regVars, queueVars, resp>>
    /\ UNCHANGED restVars

\* batch_enqueue_bancho_packets, one turn of the loop: the target is looked
\* up under the lease and, when it resolves, the frame is pushed under the
\* mutex of its queue; a target that does not resolve is passed over; the
\* branch of the channel variants is todo!(), which panics
BatchEnqueueBanchoPacketsNext(t) ==
    /\ pc[t] = "batch_enqueue"
    /\ loc[t].next <= Len(loc[t].targets)
    /\ LET user_query == TryIntoUserQuery(loc[t].targets[loc[t].next])
           h == GetInner(indexes, user_query.query)
       IN IF ~user_query.ok
          THEN /\ resp' = Resp(t, "batch_enqueue", "panic", None)
               /\ pc' = [pc EXCEPT ![t] = "idle"]
               /\ loc' = [loc EXCEPT ![t] = NoLoc]
               /\ UNCHANGED queue
          ELSE /\ h # None => qlock[h] = None
               /\ queue' = IF h = None THEN queue
                           ELSE [queue EXCEPT
                                    ![h] = PushPacket(@, loc[t].buf[1])]
               /\ loc' = [loc EXCEPT ![t].next = @ + 1]
               /\ UNCHANGED <<pc, resp>>
    /\ UNCHANGED <<regVars, qlock, drained, seq>>
    /\ UNCHANGED restVars

\* batch_enqueue_bancho_packets, the end of the loop: the lease is dropped
BatchEnqueueBanchoPacketsDone(t) ==
    /\ pc[t] = "batch_enqueue"
    /\ loc[t].next > Len(loc[t].targets)
    /\ resp' = [Resp(t, "batch_enqueue", "", None)
                EXCEPT !.data = loc[t].buf]
    /\ pc' = [pc EXCEPT ![t] = "idle"]
    /\ loc' = [loc EXCEPT ![t] = NoLoc]
    /\ UNCHANGED <<regVars, queueVars, seq>>
    /\ UNCHANGED restVars

\* ------------------------------------------------------------ broadcast
\* UserSessions::values: the sessions of the registry
Values(idx) == Range(idx.session_id)

\* broadcast_bancho_packets, the call: the frame is wrapped and the read
\* lease of the registry is taken
BroadcastBanchoPackets(t) ==
    /\ Idle(t)
    /\ seq[t] < MaxPush
    /\ seq' = [seq EXCEPT ![t] = seq[t] + 1]
    /\ pc' = [pc EXCEPT ![t] = "broadcast"]
    /\ loc' = [loc EXCEPT ![t] = [NoLoc EXCEPT
                                     !.buf = <<DataFrame(t, seq[t] + 1)>>]]
    /\ UNCHANGED <<regVars, queueVars, resp>>
    /\ UNCHANGED restVars

\* broadcast_bancho_packets, one turn of the loop over values(), in the
\* order of the hash map: the frame is pushed under the mutex of the queue
BroadcastBanchoPacketsNextAny(t) ==
    /\ pc[t] = "broadcast"
    /\ Values(indexes) \ loc[t].visited # {}
    /\ \E h \in Values(indexes) :
           /\ qlock[h] = None
           /\ queue' = [queue EXCEPT ![h] = PushPacket(@, loc[t].buf[1])]
           /\ loc' = [loc EXCEPT ![t].visited = @ \cup {h}]
    /\ UNCHANGED <<regVars, qlock, drained, pc, seq, resp>>
    /\ UNCHANGED restVars

BroadcastBanchoPacketsNext(t) ==
    /\ pc[t] = "broadcast"
    /\ \E h \in Values(indexes) \ loc[t].visited :
           /\ qlock[h] = None
           /\ queue' = [queue EXCEPT ![h] = PushPacket(@, loc[t].buf[1])]
           /\ loc' = [loc EXCEPT ![t].visited = @ \cup {h}]
    /\ UNCHANGED <<regVars, qlock, drained, pc, seq, resp>>
    /\ UNCHANGED restVars

\* broadcast_bancho_packets, the end of the loop: the lease is dropped
BroadcastBanchoPacketsDone(t) ==
    /\ pc[t] = "broadcast"
    /\ Values(indexes) \ loc[t].visited = {}
    /\ resp' = [Resp(t, "broadcast", "", None) EXCEPT !.data = loc[t].buf]
    /\ pc' = [pc EXCEPT ![t] = "idle"]
    /\ loc' = [loc EXCEPT ![t] = NoLoc]
    /\ UNCHANGED <<regVars, queueVars, seq>>
    /\ UNCHANGED restVars

\* ------------------------------------------------------------ pull, by steps
\* the tasks that hold the write lock of the cursors of chat session h
CursorLocked(h) == {t \in Tasks : pc[t] = "pull" /\ loc[t].h = h}

\* the ids of a set of channels in ascending order
RECURSIVE Ascending(_)
Ascending(ids) ==
    IF ids = {} THEN <<>>
    ELSE LET c == CHOOSE x \in ids : \A y \in ids : x <= y
         IN <<c>> \o Ascending(ids \ {c})

\* pull_chat_packets up to its loop: the chat session is resolved, its queue
\* is drained, the ids of the user's bancho channels are copied, and the
\* read lease of the channel registry and the write lock of the session's
\* cursors are taken
PullChatPacketsLock(t, query) ==
    /\ Idle(t)
    /\ LET h == GetInner(chat_indexes, query)
       IN IF h = None
          THEN /\ resp' = Resp(t, "pull", "panic", None)
               /\ UNCHANGED <<pc, loc, chat_queue, due_join>>
          ELSE /\ CursorLocked(h) = {}
               /\ pc' = [pc EXCEPT ![t] = "pull"]
               /\ loc' = [loc EXCEPT ![t] =
                             [NoLoc EXCEPT
                                 !.h = h,
                                 !.buf = DequeueAllPackets(<<>>,
                                                           chat_queue[h]),
                                 !.targets =
                                     Ascending(user_channels[
                                         sessions[h].user_id]["Bancho"])]]
               /\ chat_queue' = [chat_queue EXCEPT ![h] = <<>>]
               /\ due_join' = [due_join EXCEPT ![h] = {}]
               /\ UNCHANGED resp
    /\ UNCHANGED <<regVars, queueVars, seq>>
    /\ UNCHANGED <<channelVars, chat_indexes, channel_read_process, owed,
                   pulled, api_clients>>

\* pull_chat_packets, one turn of the loop: the mutex of the channel's log is
\* taken, the messages above the cursor are received and the cursor is moved
PullChatPacketsNext(t) ==
    /\ pc[t] = "pull"
    /\ loc[t].next <= Len(loc[t].targets)
    /\ LET h == loc[t].h
           c == loc[t].targets[loc[t].next]
           acc == PullChannel([data |-> loc[t].buf,
                               process |-> channel_read_process[h],
                               got |-> NoPulls],
                              message_queue, c)
       IN /\ channel_read_process' =
                 [channel_read_process EXCEPT ![h] = acc.process]
          /\ UNCHANGED api_clients
          /\ pulled' = [pulled EXCEPT ![h][c] = @ \o acc.got[c]]
          /\ owed' = [owed EXCEPT ![h][c] = {}]
          /\ loc' = [loc EXCEPT ![t].buf = acc.data, ![t].next = @ + 1]
    /\ UNCHANGED <<regVars, queueVars, pc, seq, resp>>
    /\ UNCHANGED <<channelVars, chat_indexes, chat_queue, due_join>>

\* pull_chat_packets, the end of the loop: the locks are dropped and the
\* collected bytes are returned
PullChatPacketsDone(t) ==
    /\ pc[t] = "pull"
    /\ loc[t].next > Len(loc[t].targets)
    /\ resp' = [Resp(t, "pull", "", loc[t].h) EXCEPT !.data = loc[t].buf]
    /\ pc' = [pc EXCEPT ![t] = "idle"]
    /\ loc' = [loc EXCEPT ![t] = NoLoc]
    /\ UNCHANGED <<regVars, queueVars, seq>>
    /\ UNCHANGED restVars

\* ------------------------------------------------------------ membership
\* the channels of a registry with one channel more than the chat service
\* is run with elsewhere
MoreChannels == 1..(NumChannels + 1)

\* Channels::add_user on its own: the member sets and the reverse map
ChannelsAddUser(c, u, platforms) ==
    /\ members' = AddUserMembers(members, c, u, platforms)
    /\ user_channels' = AddUserChannels(user_channels, c, u, platforms)
    /\ resp' = Resp(None, "channels_add_user", "", None)
    /\ UNCHANGED <<regVars, queueVars, taskVars>>
    /\ UNCHANGED <<message_queue, public_info, chatSessionVars, ghostVars,
                   api_clients>>

\* Channels::remove_user_platforms on its own
ChannelsRemoveUserPlatforms(c, u, platforms) ==
    /\ members' = RemoveUserMembers(members, c, u, platforms)
    /\ user_channels' = RemoveUserChannels(user_channels, c, u, platforms)
    /\ resp' = Resp(None, "channels_remove_user_platforms", "", None)
    /\ UNCHANGED <<regVars, queueVars, taskVars>>
    /\ UNCHANGED <<message_queue, public_info, chatSessionVars, ghostVars,
                   api_clients>>

\* a drain that answers an unresolved target with an empty packet
DequeueBanchoPacketsFromEmpty(t, has_target, target) ==
    /\ Idle(t)
    /\ LET user_query == TryIntoUserQuery(target)
           h == GetInner(indexes, user_query.query)
       IN IF ~has_target
          THEN /\ resp' = Resp(t, "dequeue", "InvalidArgument", None)
               /\ UNCHANGED <<qlock, pc, loc>>
          ELSE IF ~user_query.ok
          THEN /\ resp' = Resp(t, "dequeue", "panic", None)
               /\ UNCHANGED <<qlock, pc, loc>>
          ELSE IF h = None
          THEN /\ resp' = Resp(t, "dequeue", "", None)
               /\ UNCHANGED <<qlock, pc, loc>>
          ELSE /\ qlock[h] = None
               /\ qlock' = [qlock EXCEPT ![h] = t]
               /\ pc' = [pc EXCEPT ![t] = "dequeue"]
               /\ loc' = [loc EXCEPT ![t] = [NoLoc EXCEPT !.h = h]]
               /\ UNCHANGED resp
    /\ UNCHANGED <<regVars, queue, drained, seq>>
    /\ UNCHANGED restVars

\* dequeue_bancho_packets with any target, the call: a request without a
\* target fails, a user variant is resolved and the mutex of the session's
\* queue is taken; the branch of the channel variants is todo!(), which
\* panics
DequeueBanchoPacketsFrom(t, has_target, target) ==
    /\ Idle(t)
    /\ LET user_query == TryIntoUserQuery(target)
           h == GetInner(indexes, user_query.query)
       IN IF ~has_target
          THEN /\ resp' = Resp(t, "dequeue", "InvalidArgument", None)
               /\ UNCHANGED <<qlock, pc, loc>>
          ELSE IF ~user_query.ok
          THEN /\ resp' = Resp(t, "dequeue", "panic", None)
               /\ UNCHANGED <<qlock, pc, loc>>
          ELSE IF h = None
          THEN /\ resp' = Resp(t, "dequeue", "SessionNotExists", None)
               /\ UNCHANGED <<qlock, pc, loc>>
          ELSE /\ qlock[h] = None
               /\ qlock' = [qlock EXCEPT ![h] = t]
               /\ pc' = [pc EXCEPT ![t] = "dequeue"]
               /\ loc' = [loc EXCEPT ![t] = [NoLoc EXCEPT !.h = h]]
               /\ UNCHANGED resp
    /\ UNCHANGED <<regVars, queue, drained, seq>>
    /\ UNCHANGED restVars

\* ------------------------------------------------------------ handlers
\* PayloadReader::new(payload.ok_or(..)?).read::<T>().ok_or(..)?: the payload
\* of a frame read as a value of the type the handler expects
ReadPayloadOneError(payload, type) ==
    IF payload.kind # type
    THEN [err |-> "PacketPayloadNotExists", val |-> payload.name]
    ELSE [err |-> "", val |-> payload.name]

ReadPayload(payload, type) ==
    CASE payload.kind = "none" ->
             [err |-> "PacketPayloadNotExists", val |-> payload.name]
      [] payload.kind # type ->
             [err |-> "InvalidPacketPayload", val |-> payload.name]
      [] OTHER -> [err |-> "", val |-> payload.name]

\* a handler that returns before it has called any service
HandlerReturns(t, op, h, err) ==
    /\ Idle(t)
    /\ resp' = Resp(t, op, err, h)
    /\ UNCHANGED <<regVars, queueVars, taskVars>>
    /\ UNCHANGED restVars

\* the user ids of a request as queries
RECURSIVE QueriesOfIds(_)
QueriesOfIds(ids) ==
    IF ids = <<>> THEN <<>>
    ELSE <<UserQuery("UserId", Head(ids))>> \o QueriesOfIds(Tail(ids))

\* user_stats_request, dispatched for the session with handle h; the result
\* of the service is shown as the service returned it
UserStatsRequest(t, h, payload) ==
    /\ h \in Range(indexes.session_id)
    /\ LET request_users == ReadPayload(payload, "ints")
       IN IF request_users.err # ""
          THEN HandlerReturns(t, "stats_request", h, request_users.err)
          ELSE BatchSendUserStatsPacket(
                   t, QueriesOfIds(request_users.val), TRUE,
                   UserQuery("SessionId", sessions[h].id))

\* user_presence_request
UserPresenceRequest(t, h, payload) ==
    /\ h \in Range(indexes.session_id)
    /\ LET request_users == ReadPayload(payload, "ints")
       IN IF request_users.err # ""
          THEN HandlerReturns(t, "presence_request", h, request_users.err)
          ELSE BatchSendPresences(
                   t, QueriesOfIds(request_users.val), TRUE,
                   UserQuery("SessionId", sessions[h].id))

\* user_change_action
UserChangeAction(t, h, payload) ==
    /\ h \in Range(indexes.session_id)
    /\ LET action == ReadPayload(payload, "action")
       IN IF action.err # ""
          THEN HandlerReturns(t, "change_action", h, action.err)
          ELSE UpdateUserBanchoStatus(
                   t, TRUE, UserQuery("SessionId", sessions[h].id),
                   action.val)

\* user_receive_updates: a number that names no filter becomes the default
\* filter
UserReceiveUpdates(t, h, payload) ==
    /\ h \in Range(indexes.session_id)
    /\ LET n == ReadPayload(payload, "i32")
       IN IF n.err # ""
          THEN HandlerReturns(t, "receive_updates", h, n.err)
          ELSE /\ Idle(t)
               /\ UpdatePresenceFilter(
                      TRUE, UserQuery("SessionId", sessions[h].id),
                      PresenceFilterFromI32(n.val).val)

\* user_toggle_block_non_friend_dms: the flag is 1 or it is not; the service
\* keeps it outside the state modelled here
UserToggleBlockNonFriendDms(t, h, payload) ==
    /\ h \in Range(indexes.session_id)
    /\ LET n == ReadPayload(payload, "i32")
       IN IF n.err # ""
          THEN HandlerReturns(t, "toggle_block_non_friend_dms", h, n.err)
          ELSE /\ Idle(t)
               /\ resp' = [Resp(t, "toggle_block_non_friend_dms", "", h)
                            EXCEPT !.data = <<n.val = 1>>]
               /\ UNCHANGED <<regVars, queueVars, taskVars>>
               /\ UNCHANGED restVars

\* ------------------------------------------------------------ public channels
DEFAULT_CHANNEL_CACHE_EXPIRES == 300

\* get_public_channels of the chat service itself: the info of every public
\* channel
RECURSIVE InfosOf(_, _)
InfosOf(m, ids) ==
    IF ids = <<>> THEN <<>>
    ELSE <<ChannelInfoOf(m, Head(ids))>> \o InfosOf(m, Tail(ids))

PublicChannels(m) == InfosOf(m, Ascending(Channels))

\* CachedAtomic::get: the cached list, and whether it is older than the
\* time it is good for
CachedAtomicGet(cached) ==
    [some |-> cached.some, cache |-> cached.cache,
     expired |-> cached.age > DEFAULT_CHANNEL_CACHE_EXPIRES]

\* CachedAtomic::set
CachedAtomicSet(channels) == [some |-> TRUE, cache |-> channels, age |-> 0]

\* PublicChannelInfo::fetch_new: the list is asked of the chat service; an
\* answer is stored in the cache and returned, a failure is returned
FetchNew(cached, channels, rpc_ok) ==
    IF rpc_ok
    THEN [err |-> "", channels |-> channels,
          info |-> CachedAtomicSet(channels)]
    ELSE [err |-> "RpcError", channels |-> <<>>, info |-> cached]

\* a fetch that gives a failure of the call back to the caller whatever is
\* cached
FetchStrict(cached, channels, rpc_ok) ==
    LET cached_value == CachedAtomicGet(cached)
        new == FetchNew(cached, channels, rpc_ok)
    IN IF cached_value.some /\ ~cached_value.expired
       THEN [err |-> "", channels |-> cached_value.cache, info |-> cached,
             fetched |-> FALSE]
       ELSE [err |-> new.err, channels |-> new.channels, info |-> new.info,
             fetched |-> TRUE]

\* PublicChannelInfo::fetch
Fetch(cached, channels, rpc_ok) ==
    LET cached_value == CachedAtomicGet(cached)
        new == FetchNew(cached, channels, rpc_ok)
    IN IF cached_value.some
       THEN IF ~cached_value.expired
            THEN [err |-> "", channels |-> cached_value.cache,
                  info |-> cached, fetched |-> FALSE]
            ELSE [err |-> "",
                  channels |-> IF new.err = "" THEN new.channels
                               ELSE cached_value.cache,
                  info |-> new.info, fetched |-> TRUE]
       ELSE [err |-> new.err, channels |-> new.channels, info |-> new.info,
             fetched |-> TRUE]

\* get_public_channels of the remote client; val tells whether the chat
\* service was asked
GetPublicChannelsRemote(t, rpc_ok) ==
    /\ Idle(t)
    /\ LET r == Fetch(public_info, PublicChannels(members), rpc_ok)
       IN /\ public_info' = r.info
          /\ resp' = [Resp(t, "get_public_channels", r.err,
                           IF r.fetched THEN 1 ELSE None)
                       EXCEPT !.data = r.channels]
    /\ UNCHANGED <<regVars, queueVars, taskVars>>
    /\ UNCHANGED <<members, user_channels, message_queue>>
    /\ UNCHANGED <<chatSessionVars, ghostVars, api_clients>>

\* a second passes for the cache
CacheTick ==
    /\ public_info.some
    /\ public_info.age <= DEFAULT_CHANNEL_CACHE_EXPIRES
    /\ public_info' = [public_info EXCEPT !.age = @ + 1]
    /\ UNCHANGED <<regVars, queueVars, taskVars, resp>>
    /\ UNCHANGED <<members, user_channels, message_queue>>
    /\ UNCHANGED <<chatSessionVars, ghostVars, api_clients>>

\* ------------------------------------------------------------ login
\* the data of a session as the login service fills it in for a user
LoginDto(u) ==
    [id |-> None, user_id |-> u, username |-> UsernameOf(u),
     username_unicode |-> None]

ClientVersions == {"b20230326", "b20230814"}

\* the client version header of the request, when there is one
VersionHeaders ==
    {[some |-> FALSE, v |-> ""]}
        \cup {[some |-> TRUE, v |-> v] : v \in ClientVersions}

\* request bodies: one that does not parse and the login data of a user as
\* sent by a client of some version
LoginBodies ==
    {[kind |-> "invalid", client_version |-> "", dto |-> LoginDto(1)]}
        \cup {[kind |-> "login", client_version |-> v, dto |-> LoginDto(u)] :
                  v \in ClientVersions, u \in Users}

LoginErrors ==
    {"Login(empty client version)", "Login(mismatched client version)"}

\* the same, the body's client version not compared with the header
BanchoLoginAnyVersion(t, body, version) ==
    /\ Idle(t)
    /\ IF ~version.some
       THEN /\ resp' = Resp(t, "bancho_login",
                            "Login(empty client version)", None)
            /\ UNCHANGED <<regVars, queueVars, taskVars, restVars>>
       ELSE IF body.kind # "login"
       THEN /\ resp' = Resp(t, "bancho_login", "ParseLoginDataError", None)
            /\ UNCHANGED <<regVars, queueVars, taskVars, restVars>>
       ELSE CreateUserSessionCall(t, body.dto, TRUE)

\* bancho_login of the gateway: the header is required, the body is parsed,
\* the versions are compared, and only then the login service is called,
\* which creates the session in bancho_state
BanchoLogin(t, body, version) ==
    /\ Idle(t)
    /\ IF ~version.some
       THEN /\ resp' = Resp(t, "bancho_login",
                            "Login(empty client version)", None)
            /\ UNCHANGED <<regVars, queueVars, taskVars, restVars>>
       ELSE IF body.kind # "login"
       THEN /\ resp' = Resp(t, "bancho_login", "ParseLoginDataError", None)
            /\ UNCHANGED <<regVars, queueVars, taskVars, restVars>>
       ELSE IF body.client_version # version.v
       THEN /\ resp' = Resp(t, "bancho_login",
                            "Login(mismatched client version)", None)
            /\ UNCHANGED <<regVars, queueVars, taskVars, restVars>>
       ELSE CreateUserSessionCall(t, body.dto, TRUE)

\* ------------------------------------------------------------ osu! api
NumKeys == 3
MaxKeys == 2

ApiKeys == 1..NumKeys

\* the key lists a configuration can hold: up to MaxKeys keys in any order,
\* a key possibly twice
KeyLists == UNION {[1..n -> ApiKeys] : n \in 0..MaxKeys}

\* the indexes, from 0 and ascending, of the clients whose key is not in
\* new_keys
RECURSIVE ShouldRemove(_, _, _)
ShouldRemove(clients, new_keys, idx) ==
    IF idx >= Len(clients) THEN <<>>
    ELSE (IF \A i \in 1..Len(new_keys) : new_keys[i] # clients[idx + 1]
          THEN <<idx>> ELSE <<>>)
             \o ShouldRemove(clients, new_keys, idx + 1)

\* Vec::remove(idx): the element at idx is taken out and the later ones
\* move down
VecRemove(clients, idx) ==
    SubSeq(clients, 1, idx) \o SubSeq(clients, idx + 2, Len(clients))


\* the loop over should_remove: each index is removed from the list as it
\* is by then; Vec::remove panics on an index that is not below the length
RECURSIVE RemoveEach(_, _)
RemoveEach(clients, should_remove) ==
    IF should_remove = <<>> THEN [panic |-> FALSE, clients |-> clients]
    ELSE LET idx == Head(should_remove)
         IN IF idx >= Len(clients)
            THEN [panic |-> TRUE, clients |-> clients]
            ELSE RemoveEach(VecRemove(clients, idx), Tail(should_remove))

\* the loop over new_keys: a key that none of old_keys is gets a new client
\* at the end of the list
RECURSIVE AddNew(_, _, _)
AddNew(clients, old_keys, new_keys) ==
    IF new_keys = <<>> THEN clients
    ELSE AddNew(IF \A i \in 1..Len(old_keys) : old_keys[i] # Head(new_keys)
                THEN Append(clients, Head(new_keys)) ELSE clients,
                old_keys, Tail(new_keys))

\* OsuApi::reload_clients with the key list read from the configuration
ReloadClients(new_keys) ==
    /\ LET r == RemoveEach(api_clients,
                           ShouldRemove(api_clients, new_keys, 0))
       IN IF r.panic
          THEN /\ api_clients' = r.clients
               /\ resp' = [Resp(None, "reload_clients", "panic", None)
                              EXCEPT !.data = new_keys]
          ELSE /\ api_clients' = AddNew(r.clients, r.clients, new_keys)
               /\ resp' = [Resp(None, "reload_clients", "", None)
                              EXCEPT !.data = new_keys]
    /\ UNCHANGED <<regVars, queueVars, taskVars, chatVars>>

\* ------------------------------------------------------------ specification
\* no member, no message, no chat session
NoChatTraffic ==
    /\ members = [c \in Channels |-> [p \in Platforms |-> {}]]
    /\ user_channels = [u \in Users |-> [p \in Platforms |-> {}]]
    /\ message_queue = [c \in Channels |-> EmptyMessageQueue]
    /\ public_info = NoInfo
    /\ api_clients = <<>>
    /\ chat_queue = [h \in Handles |-> <<>>]
    /\ channel_read_process = [h \in Handles |-> EmptyMap]
    /\ owed = [h \in Handles |-> [c \in Channels |-> {}]]
    /\ due_join = [h \in Handles |-> {}]
    /\ pulled = [h \in Handles |-> [c \in Channels |-> <<>>]]

NoChat == NoChatTraffic /\ chat_indexes = EmptyIndexes

\* the state after construction: nothing registered, nothing queued
Init ==
    /\ sessions = [h \in Handles |-> NoSession]
    /\ created = 0
    /\ indexes = EmptyIndexes
    /\ live = {}
    /\ queue = [h \in Handles |-> <<>>]
    /\ qlock = [h \in Handles |-> None]
    /\ pc = [t \in Tasks |-> "idle"]
    /\ loc = [t \in Tasks |-> NoLoc]
    /\ seq = [t \in Tasks |-> 0]
    /\ drained = [h \in Handles |-> <<>>]
    /\ resp = NoResp
    /\ NoChat

\* registry operations: logins, logouts and frames sent to sessions
NextRegistry ==
    \/ \E t \in Tasks, dto \in Dtos, ci \in BOOLEAN :
           CreateUserSessionCall(t, dto, ci)
    \/ \E t \in Tasks : CreateUserSessionBody(t)
    \/ \E t \in Tasks, q \in AllQueries : DeleteUserSession(t, q)
    \/ \E q \in AllQueries : EnqueueBanchoPackets(1, q)

SpecRegistry == Init /\ [][NextRegistry]_vars

\* queue operations on registered sessions
NextQueue ==
    \/ \E t \in Tasks, q \in AllQueries : EnqueueBanchoPackets(t, q)
    \/ \E t \in Tasks, q \in AllQueries : DequeueBanchoPacketsLock(t, q)
    \/ \E t \in Tasks : DequeueBanchoPacketsPop(t)
    \/ \E t \in Tasks : DequeueBanchoPacketsDone(t)

\* a registry in which every user has logged in once, in user-id order
DtoOfUser(u) ==
    [id |-> None, user_id |-> u, username |-> UsernameOf(u),
     username_unicode |-> IF u = 1 THEN UnicodeOf(u) ELSE None]

RECURSIVE RegisteredUpTo(_)
RegisteredUpTo(n) ==
    IF n = 0 THEN EmptyIndexes
    ELSE InsertInner(RegisteredUpTo(n - 1),
                     NewSession(DtoOfUser(n), n - 1), n)

InitQueue ==
    /\ sessions = [h \in Handles |->
                      IF h <= NumUsers THEN NewSession(DtoOfUser(h), h - 1)
                      ELSE NoSession]
    /\ created = NumUsers
    /\ indexes = RegisteredUpTo(NumUsers)
    /\ live = 1..NumUsers
    /\ queue = [h \in Handles |-> <<>>]
    /\ qlock = [h \in Handles |-> None]
    /\ pc = [t \in Tasks |-> "idle"]
    /\ loc = [t \in Tasks |-> NoLoc]
    /\ seq = [t \in Tasks |-> 0]
    /\ drained = [h \in Handles |-> <<>>]
    /\ resp = NoResp
    /\ NoChat

SpecQueue == InitQueue /\ [][NextQueue]_vars

\* chat operations on registered sessions: every user is logged in and has
\* a chat session
PlatformSets == (SUBSET Platforms) \ {{}}

InitChat ==
    /\ sessions = [h \in Handles |->
                      IF h <= NumUsers THEN NewSession(DtoOfUser(h), h - 1)
                      ELSE NoSession]
    /\ created = NumUsers
    /\ indexes = RegisteredUpTo(NumUsers)
    /\ live = 1..NumUsers
    /\ queue = [h \in Handles |-> <<>>]
    /\ qlock = [h \in Handles |-> None]
    /\ pc = [t \in Tasks |-> "idle"]
    /\ loc = [t \in Tasks |-> NoLoc]
    /\ seq = [t \in Tasks |-> 0]
    /\ drained = [h \in Handles |-> <<>>]
    /\ resp = NoResp
    /\ NoChatTraffic
    /\ chat_indexes = RegisteredUpTo(NumUsers)

NextChat ==
    \/ \E cq \in ChannelQueries, u \in Users, ps \in PlatformSets :
           AddUserIntoChannel(cq, u, ps)
    \/ \E cq \in ChannelQueries, u \in Users, ps \in PlatformSets :
           RemoveUserPlatformsFromChannel(cq, u, ps)
    \/ \E u \in Users, cq \in ChannelQueries, ps \in {{}, {"Web"}},
          has_target \in BOOLEAN :
           SendMessage(u, 1, has_target, MessageTarget("Channel", cq), ps)
    \/ \E q \in AllQueries : PullChatPackets(q)

SpecChat == InitChat /\ [][NextChat]_vars

\* channel joins and leaves dispatched for registered sessions, and the
\* drains of their queues
NextDispatch ==
    \/ \E h \in Handles, payload \in Payloads : UserChannelJoin(h, payload)
    \/ \E h \in Handles, payload \in Payloads : UserChannelPart(h, payload)
    \/ \E q \in AllQueries : DequeueBanchoPacketsLock(1, q)
    \/ DequeueBanchoPacketsPop(1)
    \/ DequeueBanchoPacketsDone(1)

SpecDispatch == InitChat /\ [][NextDispatch]_vars

\* sessions that join channels and are then destroyed: by a delete, by a
\* logout, or by a second login of their user
NextLifecycle ==
    \/ \E cq \in ChannelQueries, u \in Users, ps \in PlatformSets :
           AddUserIntoChannel(cq, u, ps)
    \/ \E q \in AllQueries : DeleteUserSession(1, q)
    \/ \E h \in Handles : UserLogout(1, h)
    \/ \E dto \in Dtos, ci \in BOOLEAN : CreateUserSessionCall(1, dto, ci)
    \/ CreateUserSessionBody(1)

SpecLifecycle == InitChat /\ [][NextLifecycle]_vars

\* joins and leaves of channels on every combination of platforms
NextChannels ==
    \/ \E cq \in ChannelQueries, u \in Users, ps \in PlatformSets :
           AddUserIntoChannel(cq, u, ps)
    \/ \E cq \in ChannelQueries, u \in Users, ps \in PlatformSets :
           RemoveUserPlatformsFromChannel(cq, u, ps)
    \/ \E cq \in ChannelQueries, u \in Users : RemoveUserFromChannel(cq, u)

SpecChannels == InitChat /\ [][NextChannels]_vars

\* the lists of queries of a batch request: none, one of any variant, or
\* one of any variant followed by one by user id
QueryLists ==
    {<<>>} \cup {<<q>> : q \in AllQueries}
        \cup {<<q1, UserQuery("UserId", u)>> : q1 \in AllQueries, u \in Users}

\* stats and presences sent to registered sessions while users log in again
NextPresence ==
    \/ \E qs \in QueryLists, has_to \in BOOLEAN, to \in AllQueries :
           BatchSendUserStatsPacket(1, qs, has_to, to)
    \/ \E qs \in QueryLists, has_to \in BOOLEAN, to \in AllQueries :
           BatchSendPresences(1, qs, has_to, to)
    \/ \E has_to \in BOOLEAN, to \in AllQueries :
           SendAllPresences(1, has_to, to)
    \/ SendEnqueue(1)
    \/ \E dto \in Dtos, ci \in BOOLEAN : CreateUserSessionCall(2, dto, ci)
    \/ CreateUserSessionBody(2)

SpecPresence == InitQueue /\ [][NextPresence]_vars

\* a client that sets its presence filter and asks for all presences
NextFilter ==
    \/ \E has_query \in BOOLEAN, q \in AllQueries, f \in 0..3 :
           UpdatePresenceFilter(has_query, q, f)
    \/ \E h \in Handles : PresenceRequestAll(1, h)
    \/ SendEnqueue(1)
    \/ \E q \in AllQueries : DequeueBanchoPacketsLock(2, q)
    \/ DequeueBanchoPacketsPop(2)
    \/ DequeueBanchoPacketsDone(2)

SpecFilter == InitQueue /\ [][NextFilter]_vars

\* status updates of one client, drains and logouts of the others
NextStatus ==
    \/ \E has_query \in BOOLEAN, q \in AllQueries, r \in StatusRequests :
           UpdateUserBanchoStatus(1, has_query, q, r)
    \/ UpdateUserBanchoStatusBroadcast(1)
    \/ \E q \in AllQueries : DequeueBanchoPacketsLock(2, q)
    \/ DequeueBanchoPacketsPop(2)
    \/ DequeueBanchoPacketsDone(2)
    \/ \E q \in AllQueries : DeleteUserSession(2, q)

SpecStatus == InitQueue /\ [][NextStatus]_vars

\* the channel infos a caller can pass: a small member count, and one that
\* does not fit the frame's 16-bit field
ChannelInfos ==
    {[name |-> ChannelNameOf(c), counter |-> [bancho |-> n]] :
        c \in Channels, n \in {1, 40000}}

\* channel updates sent while sessions come and go
NextNotify ==
    \/ \E has_targets \in BOOLEAN, qs \in QueryLists,
          has_channel_info \in BOOLEAN, has_counter \in BOOLEAN,
          info \in ChannelInfos :
           ChannelUpdateNotify(1, has_targets, qs, has_channel_info,
                               has_counter, info)
    \/ \E dto \in Dtos, ci \in BOOLEAN : CreateUserSessionCall(2, dto, ci)
    \/ CreateUserSessionBody(2)
    \/ \E q \in AllQueries : DeleteUserSession(2, q)

SpecNotify == InitQueue /\ [][NextNotify]_vars

\* the contents of a message, and the platform lists of a send: none given,
\* the game client's only, another one only
Contents == {7}
SendPlatforms == {{}, {"Bancho"}, {"Web"}}

\* messages sent to users and to channels, and the pulls of the recipients
NextDirect ==
    \/ \E u \in Users, m \in Contents, q \in AllQueries,
          ps \in SendPlatforms, has_target \in BOOLEAN :
           SendMessage(u, m, has_target, MessageTarget("User", q), ps)
    \/ \E u \in Users, cq \in ChannelQueries :
           SendMessage(u, 7, TRUE, MessageTarget("Channel", cq), {})
    \/ \E q \in AllQueries : PullChatPackets(q)

SpecDirect == InitChat /\ [][NextDirect]_vars

\* lookups through both implementations while sessions come and go
NextRemote ==
    \/ \E impl \in Impls, q \in AllQueries :
           CheckUserSessionExists(1, impl, q)
    \/ \E impl \in Impls, q \in AllQueries : GetUserSession(1, impl, q)
    \/ \E dto \in Dtos, ci \in BOOLEAN : CreateUserSessionCall(2, dto, ci)
    \/ CreateUserSessionBody(2)
    \/ \E q \in AllQueries : DeleteUserSession(2, q)

SpecRemote == Init /\ [][NextRemote]_vars

\* batched requests of the clients
NextGateway ==
    \/ \E h \in Handles, packets \in Batches : BanchoPost(1, h, packets)
    \/ \E rpc_ok \in BOOLEAN : ProcessBanchoPacket(1, rpc_ok)
    \/ BanchoPostRespond(1)

SpecGateway == InitChat /\ [][NextGateway]_vars

\* a service that is stopped and started again from its snapshot between
\* logins, logouts, sends and drains
NextSnapshot ==
    \/ \E q \in AllQueries : EnqueueBanchoPackets(1, q)
    \/ \E q \in AllQueries : DequeueBanchoPacketsLock(1, q)
    \/ DequeueBanchoPacketsPop(1)
    \/ DequeueBanchoPacketsDone(1)
    \/ \E dto \in Dtos, ci \in BOOLEAN : CreateUserSessionCall(2, dto, ci)
    \/ CreateUserSessionBody(2)
    \/ \E q \in AllQueries : DeleteUserSession(2, q)
    \/ SnapshotRestore(1)

SpecSnapshot == InitQueue /\ [][NextSnapshot]_vars

\* sessions that are checked from time to time while time passes and the
\* sweep runs
NextSweep ==
    \/ \E impl \in Impls, q \in AllQueries :
           CheckUserSessionExists(1, impl, q)
    \/ \E dto \in Dtos, ci \in BOOLEAN : CreateUserSessionCall(2, dto, ci)
    \/ CreateUserSessionBody(2)
    \/ Tick
    \/ Sweep

SpecSweep == InitQueue /\ [][NextSweep]_vars

\* the clock goes on and the background task is scheduled again and again
SpecSweepFair == SpecSweep /\ WF_vars(Tick) /\ WF_vars(Sweep)

\* frames sent to users and to channels, and the drains of the sessions
NextTargets ==
    \/ \E t \in Tasks, has_target \in BOOLEAN, target \in BanchoPacketTargets :
           EnqueueBanchoPacketsTo(t, has_target, target)
    \/ \E q \in AllQueries : DequeueBanchoPacketsLock(1, q)
    \/ DequeueBanchoPacketsPop(1)
    \/ DequeueBanchoPacketsDone(1)

SpecTargets == InitChat /\ [][NextTargets]_vars

\* the lists of targets of a batch: lists of user variants, and a channel on
\* its own
TargetLists == QueryLists \cup {<<cq>> : cq \in ChannelQueries}

\* batches sent while the sessions drain their queues and log in and out
NextBatch ==
    \/ \E targets \in TargetLists : BatchEnqueueBanchoPackets(1, targets)
    \/ BatchEnqueueBanchoPacketsNext(1)
    \/ BatchEnqueueBanchoPacketsDone(1)
    \/ \E q \in AllQueries : DequeueBanchoPacketsLock(2, q)
    \/ DequeueBanchoPacketsPop(2)
    \/ DequeueBanchoPacketsDone(2)
    \/ \E q \in AllQueries : DeleteUserSession(2, q)

SpecBatch == InitQueue /\ [][NextBatch]_vars

\* broadcasts sent while users log in and out
NextBroadcast ==
    \/ BroadcastBanchoPackets(1)
    \/ BroadcastBanchoPacketsNext(1)
    \/ BroadcastBanchoPacketsDone(1)
    \/ \E dto \in Dtos, ci \in BOOLEAN : CreateUserSessionCall(2, dto, ci)
    \/ CreateUserSessionBody(2)
    \/ \E q \in AllQueries : DeleteUserSession(2, q)

SpecBroadcast == InitQueue /\ [][NextBroadcast]_vars

\* status updates of the session of user 1, one by each task, that are
\* served at the same time
NextRace ==
    \/ \E t \in Tasks, has_query \in BOOLEAN, r \in StatusRequests :
           /\ seq[t] = 0
           /\ UpdateUserBanchoStatusGet(t, has_query, UserQuery("UserId", 1),
                                        r)
    \/ \E t \in Tasks : UpdateAllStore(t)
    \/ \E t \in Tasks : UserStatsPacketLoad(t)
    \/ \E t \in Tasks : UpdateUserBanchoStatusSend(t)

SpecRace == InitQueue /\ [][NextRace]_vars

\* broadcasts and batches of one task while another drains the queues
NextLeases ==
    \/ BroadcastBanchoPackets(1)
    \/ BroadcastBanchoPacketsNext(1)
    \/ BroadcastBanchoPacketsDone(1)
    \/ \E q \in AllQueries : BatchEnqueueBanchoPackets(1, <<q>>)
    \/ BatchEnqueueBanchoPacketsNext(1)
    \/ BatchEnqueueBanchoPacketsDone(1)
    \/ \E q \in AllQueries : DequeueBanchoPacketsLock(2, q)
    \/ DequeueBanchoPacketsPop(2)
    \/ DequeueBanchoPacketsDone(2)

SpecLeases == InitQueue /\ [][NextLeases]_vars

\* the operations of the session service and of the chat service, started
\* by two tasks in any order and running side by side
NothingPushed == \A t \in Tasks : seq[t] = 0

StartProgress(t) ==
    \/ t = 1 /\ NothingPushed /\ BroadcastBanchoPackets(t)
    \/ t = 1 /\ PullChatPacketsLock(t, UserQuery("UserId", 1))
    \/ t # 1 /\ DequeueBanchoPacketsLock(t, UserQuery("UserId", 1))
    \/ t # 1 /\ NothingPushed
              /\ EnqueueBanchoPackets(t, UserQuery("UserId", 1))
    \/ t # 1 /\ CreateUserSessionCall(t, DtoOfUser(1), TRUE)
    \/ t # 1 /\ DeleteUserSession(t, UserQuery("UserId", 1))
    \/ t # 1 /\ NothingPushed
              /\ ChannelUpdateNotify(t, FALSE, <<>>, TRUE, TRUE,
                                     ChannelInfoOf(members, 1))

\* the steps by which a started operation of task t goes on to its end
StepProgress(t) ==
    \/ BroadcastBanchoPacketsNext(t)
    \/ BroadcastBanchoPacketsDone(t)
    \/ DequeueBanchoPacketsPop(t)
    \/ DequeueBanchoPacketsDone(t)
    \/ CreateUserSessionBody(t)
    \/ PullChatPacketsNext(t)
    \/ PullChatPacketsDone(t)

NextProgress ==
    \/ \E t \in Tasks : StartProgress(t)
    \/ \E t \in Tasks : StepProgress(t)
    \/ AddUserIntoChannel(ChannelQuery("ChannelId", 1), 1, {"Bancho"})
    \/ /\ message_queue[1].last_msg_id = 0
       /\ SendMessage(1, 7, TRUE,
                      MessageTarget("Channel", ChannelQuery("ChannelId", 1)),
                      {})

SpecProgress == InitChat /\ [][NextProgress]_vars

\* the scheduler runs every task again and again, and the locks are handed
\* out in the order of the requests: a step that is possible again and again
\* is taken
SpecProgressFair == SpecProgress /\ \A t \in Tasks : SF_vars(StepProgress(t))

\* a registry of two channels that nobody has joined yet
InitMembership ==
    /\ sessions = [h \in Handles |-> NoSession]
    /\ created = 0
    /\ indexes = EmptyIndexes
    /\ live = {}
    /\ queue = [h \in Handles |-> <<>>]
    /\ qlock = [h \in Handles |-> None]
    /\ pc = [t \in Tasks |-> "idle"]
    /\ loc = [t \in Tasks |-> NoLoc]
    /\ seq = [t \in Tasks |-> 0]
    /\ drained = [h \in Handles |-> <<>>]
    /\ resp = NoResp
    /\ members = [c \in MoreChannels |-> [p \in Platforms |-> {}]]
    /\ user_channels = [u \in Users |-> [p \in Platforms |-> {}]]
    /\ message_queue = [c \in Channels |-> EmptyMessageQueue]
    /\ public_info = NoInfo
    /\ api_clients = <<>>
    /\ chat_queue = [h \in Handles |-> <<>>]
    /\ channel_read_process = [h \in Handles |-> EmptyMap]
    /\ owed = [h \in Handles |-> [c \in Channels |-> {}]]
    /\ due_join = [h \in Handles |-> {}]
    /\ pulled = [h \in Handles |-> [c \in Channels |-> <<>>]]
    /\ chat_indexes = EmptyIndexes

\* joins and leaves of the two channels on every combination of platforms
NextMembership ==
    \/ \E c \in MoreChannels, u \in Users, ps \in PlatformSets :
           ChannelsAddUser(c, u, ps)
    \/ \E c \in MoreChannels, u \in Users, ps \in PlatformSets :
           ChannelsRemoveUserPlatforms(c, u, ps)

SpecMembership == InitMembership /\ [][NextMembership]_vars

\* channel updates with a target list, sent while sessions come and go
NextNotifyTo ==
    \/ \E qs \in QueryLists :
           ChannelUpdateNotify(1, TRUE, qs, TRUE, TRUE,
                               ChannelInfoOf(members, 1))
    \/ \E dto \in Dtos, ci \in BOOLEAN : CreateUserSessionCall(2, dto, ci)
    \/ CreateUserSessionBody(2)
    \/ \E q \in AllQueries : DeleteUserSession(2, q)

SpecNotifyTo == InitQueue /\ [][NextNotifyTo]_vars

\* frames sent to and drained from any target, with or without the target
\* field, while sessions are deleted
NextErrors ==
    \/ \E has_target \in BOOLEAN, target \in BanchoPacketTargets :
           EnqueueBanchoPacketsTo(1, has_target, target)
    \/ \E has_target \in BOOLEAN, target \in BanchoPacketTargets :
           DequeueBanchoPacketsFrom(1, has_target, target)
    \/ DequeueBanchoPacketsPop(1)
    \/ DequeueBanchoPacketsDone(1)
    \/ \E q \in AllQueries : DeleteUserSession(2, q)

SpecErrors == InitChat /\ [][NextErrors]_vars

\* the payloads of the frames of each type: none, one that cannot be read,
\* and values of the type
IntsPayloads ==
    {Payload("none", None), Payload("invalid", None)}
        \cup {Payload("ints", <<NumUsers>>)}
I32Payloads ==
    {Payload("none", None), Payload("invalid", None)}
        \cup {Payload("i32", n) : n \in {1, 7}}
ActionPayloads ==
    {Payload("none", None), Payload("invalid", None)}
        \cup {Payload("action", CHOOSE r \in StatusRequests :
                                     r.online_status = 2)}

\* frames with a payload dispatched for the session of the first user
NextHandlers ==
    \/ \E payload \in Payloads : UserChannelJoin(1, payload)
    \/ \E payload \in Payloads : UserChannelPart(1, payload)
    \/ \E payload \in IntsPayloads : UserStatsRequest(1, 1, payload)
    \/ \E payload \in IntsPayloads : UserPresenceRequest(1, 1, payload)
    \/ \E payload \in ActionPayloads : UserChangeAction(1, 1, payload)
    \/ \E payload \in I32Payloads : UserReceiveUpdates(1, 1, payload)
    \/ \E payload \in I32Payloads :
           UserToggleBlockNonFriendDms(1, 1, payload)
    \/ SendEnqueue(1)
    \/ UpdateUserBanchoStatusBroadcast(1)

SpecHandlers == InitChat /\ [][NextHandlers]_vars

\* the public channels asked for through the remote client again and again,
\* while time passes and users join and leave the channels
NextPublic ==
    \/ \E rpc_ok \in BOOLEAN : GetPublicChannelsRemote(1, rpc_ok)
    \/ CacheTick
    \/ \E c \in Channels, u \in Users : ChannelsAddUser(c, u, {"Bancho"})
    \/ \E c \in Channels, u \in Users :
           ChannelsRemoveUserPlatforms(c, u, {"Bancho"})

SpecPublic == InitChat /\ [][NextPublic]_vars

\* joins and leaves of channels while the chat service holds no session:
\* no queue has been created for any user
NextBuffer ==
    \/ \E cq \in ChannelQueries, u \in Users, ps \in PlatformSets :
           AddUserIntoChannel(cq, u, ps)
    \/ \E cq \in ChannelQueries, u \in Users, ps \in PlatformSets :
           RemoveUserPlatformsFromChannel(cq, u, ps)
    \/ \E cq \in ChannelQueries, u \in Users : RemoveUserFromChannel(cq, u)

SpecBuffer == InitQueue /\ [][NextBuffer]_vars

\* logins through the gateway, and logouts
NextLogin ==
    \/ \E t \in Tasks, body \in LoginBodies, version \in VersionHeaders :
           BanchoLogin(t, body, version)
    \/ \E t \in Tasks : CreateUserSessionBody(t)
    \/ \E q \in AllQueries : DeleteUserSession(1, q)

SpecLogin == Init /\ [][NextLogin]_vars

\* reloads of the osu! api clients after changes of the configured keys
NextReload == \E new_keys \in KeyLists : ReloadClients(new_keys)

SpecReload == Init /\ [][NextReload]_vars

TypeOK ==
    /\ created \in 0..MaxSessions
    /\ \A h \in Handles : h > created => sessions[h] = NoSession

\* ------------------------------------------------------------ properties
\* the lookups that must resolve to session handle h
ResolvesBy(idx, s, kind) ==
    CASE kind = "SessionId" -> GetInner(idx, UserQuery(kind, s.id))
      [] kind = "UserId" -> GetInner(idx, UserQuery(kind, s.user_id))
      [] kind = "Username" -> GetInner(idx, UserQuery(kind, s.username))
      [] kind = "UsernameUnicode" ->
             GetInner(idx, UserQuery(kind, s.username_unicode))

KindsOf(s) ==
    IF s.username_unicode # None THEN QueryKinds
    ELSE QueryKinds \ {"UsernameUnicode"}

\* C1: every session inserted and not yet deleted is returned by the lookup
\* by its session id, its user id, its username and, when it has one, its
\* unicode username, and all of them return that one record.
ThmC1 ==
    \A h \in live : \A kind \in KindsOf(sessions[h]) :
        ResolvesBy(indexes, sessions[h], kind) = h

\* a session with a unicode name is registered next to one without, after
\* some other session has been removed
WitC1 ==
    /\ \E h \in live : sessions[h].username_unicode # None
    /\ \E h \in live : sessions[h].username_unicode = None
    /\ Cardinality(live) < created

\* C2: at most one session of the registry has a given user id, also while
\* several create calls for that user id are under way.
ThmC2 ==
    \A u \in Users :
        Cardinality({k \in DOMAIN indexes.session_id :
                        sessions[indexes.session_id[k]].user_id = u}) <= 1

\* a create for a user has displaced a session while another create for the
\* same user is still under way
WitC2 ==
    /\ resp.op = "create"
    /\ resp.old # None
    /\ \E t \in Tasks :
           /\ pc[t] = "create"
           /\ loc[t].dto.user_id = sessions[resp.old].user_id

CreateReturns == \E t \in Tasks : pc[t] = "create" /\ pc'[t] = "idle"

\* C3: when create returns for a user id that had a session, the earlier
\* session is returned by none of the four lookups, the last frame of its
\* queue is the logout frame, and the lookup by user id returns the new
\* session, whose session id differs from the earlier one.
ThmC3 ==
    [][(CreateReturns /\ resp'.old # None) =>
          LET old == resp'.old
              s == sessions'[old]
              new == GetInner(indexes', UserQuery("UserId", s.user_id))
          IN /\ \A kind \in KindsOf(s) : ResolvesBy(indexes', s, kind) # old
             /\ queue'[old] # <<>>
             /\ queue'[old][Len(queue'[old])] = LogoutFrame
             /\ new # None
             /\ new # old
             /\ sessions'[new].id = resp'.val
             /\ sessions'[new].id # s.id]_vars

\* a create has just displaced a session whose queue already held a frame
WitC3 ==
    /\ resp.op = "create"
    /\ resp.old # None
    /\ Len(queue[resp.old]) >= 2

\* C4: the session id given to a new session was given to no session before
\* it, deleted or not, and no session's id changes after its creation.
ThmC4 ==
    [][/\ \A h \in 1..created : sessions'[h].id = sessions[h].id
       /\ CreateReturns =>
              /\ resp'.val = sessions'[created'].id
              /\ \A h \in 1..created : sessions[h].id # resp'.val]_vars

\* a session has been created after an earlier session was deleted
WitC4 ==
    /\ resp.op = "create"
    /\ resp.old = None
    /\ \E h \in 1..created : h \notin live

\* C5: frames pushed to one queue by one task come out of that queue's
\* drains in the order the task pushed them.
ThmC5 ==
    \A h \in Handles : \A i, j \in 1..Len(drained[h]) :
        (/\ i < j
         /\ drained[h][i].kind = "Data"
         /\ drained[h][j].kind = "Data"
         /\ drained[h][i].a = drained[h][j].a)
            => drained[h][i].b < drained[h][j].b

\* two frames of one task and a frame of another task have been drained
\* from one queue
WitC5 ==
    \E h \in Handles : \E i, j, k \in 1..Len(drained[h]) :
        /\ i < j
        /\ drained[h][i].a = drained[h][j].a
        /\ drained[h][k].a # drained[h][i].a


\* the ids a pull step of session h returns for channel c
Returned(h, c) ==
    {pulled'[h][c][i] : i \in (Len(pulled[h][c]) + 1)..Len(pulled'[h][c])}

\* a pull of session h completes in this step
PullReturns(h) == resp'.op = "pull" /\ resp'.err = "" /\ resp'.val = h

\* C6 as stated: every message appended to a channel's log while the user
\* of a session is a bancho member of the channel is returned by the next
\* pull of that session.
CexC6 ==
    [][\A h \in Handles : \A c \in Channels :
          (PullReturns(h) /\ owed[h][c] # {} /\ owed'[h][c] = {}) =>
              \A m \in owed[h][c] :
                  /\ m.id \in Returned(h, c)
                  /\ m.packet \in Range(resp'.data)]_vars

\* C6: every message appended to a channel's log while the user of a session
\* is a bancho member of the channel, and still retained in the log when the
\* session pulls next, is returned by that pull.
ThmC6 ==
    [][\A h \in Handles : \A c \in Channels :
          (PullReturns(h) /\ owed[h][c] # {} /\ owed'[h][c] = {}) =>
              \A m \in owed[h][c] :
                  m \in Range(message_queue[c].messages) =>
                      /\ m.id \in Returned(h, c)
                      /\ m.packet \in Range(resp'.data)]_vars

\* a pull has returned a chat message sent to a channel of which the
\* pulling user is a member
WitC6 ==
    /\ resp.op = "pull"
    /\ resp.err = ""
    /\ \E i \in 1..Len(resp.data) : resp.data[i].kind = "SendMessage"
    /\ \E c \in Channels :
           sessions[resp.val].user_id \in members[c]["Bancho"]

ThmC8 ==
    [][\A h \in Handles :
          (PullReturns(h) /\ due_join[h] # {} /\ due_join'[h] = {}) =>
              \A c \in due_join[h] :
                  ChannelJoinFrame(ChannelNameOf(c)) \in Range(resp'.data)]_vars

\* a pull has returned a ChannelJoin frame
WitC8 ==
    /\ resp.op = "pull"
    /\ resp.err = ""
    /\ \E c \in Channels :
           ChannelJoinFrame(ChannelNameOf(c)) \in Range(resp.data)

\* C9: when the join of an empty channel is dispatched for a session, the
\* handler's response holds a ChannelJoin frame for the channel and the
\* queue of every registered session gets a ChannelInfo frame for the channel
\* with member count 1.
ThmC9 ==
    [][\A c \in Channels :
          (/\ resp'.op = "channel_join"
           /\ resp'.err = ""
           /\ members[c]["Bancho"] = {}
           /\ members'[c]["Bancho"] # {}) =>
              /\ ChannelJoinFrame(ChannelNameOf(c)) \in Range(resp'.data)
              /\ \A s \in Range(indexes.session_id) :
                     queue'[s] = Append(queue[s],
                                        ChannelInfoFrame(ChannelNameOf(c), 1))]_vars

\* the join of a channel has been dispatched for one of two registered
\* sessions, the other one not being a member
WitC9 ==
    /\ resp.op = "channel_join"
    /\ resp.err = ""
    /\ Cardinality(Range(indexes.session_id)) >= 2
    /\ \E c \in Channels :
           /\ members[c]["Bancho"] = {sessions[resp.val].user_id}
           /\ \A s \in Range(indexes.session_id) :
                  /\ queue[s] # <<>>
                  /\ queue[s][Len(queue[s])] =
                         ChannelInfoFrame(ChannelNameOf(c), 1)

\* C10: when a session is destroyed, its user is afterwards a bancho member
\* of none of the channels it was a member of.
CexC10 ==
    [][\A h \in live \ live' : \A c \in Channels :
          sessions[h].user_id \in members[c]["Bancho"] =>
              sessions[h].user_id \notin members'[c]["Bancho"]]_vars

\* C11: a user is in a channel's member set of a platform exactly when the
\* channel is in the user's reverse map for that platform, after any sequence
\* of add_user, remove_user_platforms and remove_user.
ThmC11 ==
    \A u \in Users : \A c \in Channels : \A p \in Platforms :
        u \in members[c][p] <=> c \in user_channels[u][p]

\* a user has been removed from a channel on every platform while another
\* user is a member of it on one platform only
WitC11 ==
    /\ resp.op = "remove_user_from_channel"
    /\ resp.err = ""
    /\ \E c \in Channels : \E u \in Users :
           /\ u \in members[c]["Web"]
           /\ u \notin members[c]["Bancho"]
           /\ c \in user_channels[u]["Web"]
           /\ message_queue[c].last_msg_id >= 2

\* C12: every message appended to a channel's log gets the id that follows
\* the id of the message appended before it, whichever senders append and in
\* whichever order, and a message that stays in the log when another one is
\* evicted keeps its id.
ThmC12 ==
    [][\A c \in Channels :
          message_queue'[c] # message_queue[c] =>
              LET old == message_queue[c]
                  new == message_queue'[c]
                  n == Len(new.messages)
              IN /\ new.last_msg_id = old.last_msg_id + 1
                 /\ n >= 1
                 /\ new.messages[n].id = new.last_msg_id
                 /\ \A i \in 1..(n - 1) :
                        new.messages[i] \in Range(old.messages)
                 /\ \A i \in 1..n :
                        new.messages[i].id = new.last_msg_id - n + i]_vars

\* two senders have appended to one log and its first message is evicted
WitC12 ==
    \E c \in Channels :
        LET ms == message_queue[c].messages
        IN /\ Len(ms) = LogCapacity
           /\ ms[1].id > 1
           /\ \A i \in 1..Len(ms) : ms[i].packet.kind = "SendMessage"
           /\ ms[1].packet.a # ms[2].packet.a

\* the cursor of session h in channel c
ReadProcessOf(h, c) ==
    IF c \in DOMAIN channel_read_process[h] THEN channel_read_process[h][c]
    ELSE DefaultReadProcess

\* C13: when the cursor of a pulling session is below the oldest id retained
\* in the log of a channel of its user, the pull succeeds and returns exactly
\* the retained messages, oldest first, and moves the cursor to the id of the
\* last of them.
ThmC13 ==
    [][\A h \in Handles : \A c \in Channels :
          (/\ PullReturns(h)
           /\ c \in user_channels[sessions[h].user_id]["Bancho"]
           /\ message_queue[c].messages # <<>>
           /\ ReadProcessOf(h, c) < message_queue[c].messages[1].id) =>
              LET ms == message_queue[c].messages
                  n == Len(ms)
                  before == Len(pulled[h][c])
              IN /\ SubSeq(pulled'[h][c], before + 1, Len(pulled'[h][c]))
                        = IdsOf(ms)
                 /\ \A i \in 1..(n - 1) : ms[i].id < ms[i + 1].id
                 /\ \E k \in 1..Len(resp'.data) :
                        SubSeq(resp'.data, k, k + n - 1) = PacketsOf(ms)
                 /\ ReadProcessOf(h, c)' = ms[n].id]_vars

\* the first pull of a session has returned a channel's log from which the
\* first message had already been evicted
WitC13 ==
    /\ resp.op = "pull"
    /\ resp.err = ""
    /\ \E c \in Channels :
           /\ pulled[resp.val][c] = <<2, 3>>
           /\ Len(resp.data) >= 2
           /\ ReadProcessOf(resp.val, c) = 3

\* the second half of a send by task t completes with success in this step
SendReturns(t) == pc[t] = "send" /\ pc'[t] = "idle" /\ resp'.err = ""

\* C14: what batch_send_user_stats_packet, batch_send_presences and
\* send_all_presences append to the queue of their recipient holds no stats
\* or presence frame of the recipient's own session, whichever query variant
\* lists the recipient and whichever target variant addresses it.
ThmC14 ==
    [][\A t \in Tasks :
          (SendReturns(t) /\ resp'.op # "presence_request_all") =>
              LET h == resp'.val
              IN /\ queue'[h] = Append(queue[h], Packet(resp'.data))
                 /\ \A i \in 1..Len(resp'.data) :
                        /\ resp'.data[i].kind \in {"UserStats", "UserPresence"}
                        /\ resp'.data[i].src # sessions[h].id]_vars

\* all presences have been sent to one of several registered sessions: the
\* recipient got one frame for each of the others
WitC14 ==
    /\ resp.op = "send_all_presences"
    /\ resp.err = ""
    /\ resp.data # <<>>
    /\ Len(resp.data) = Cardinality(Range(indexes.session_id)) - 1
    /\ \A s \in Range(indexes.session_id) \ {resp.val} :
           \E i \in 1..Len(resp.data) : resp.data[i].src = sessions[s].id
    /\ sessions[resp.val].username_unicode # None

\* C15: a request for all presences made for a session after it has set its
\* presence filter to None appends no presence frame to the session's queue.
CexC15 ==
    [][\A t \in Tasks :
          (/\ SendReturns(t)
           /\ resp'.op = "presence_request_all"
           /\ loc[t].quiet) =>
              /\ \A i \in 1..Len(resp'.data) :
                     resp'.data[i].kind # "UserPresence"
              /\ queue'[resp'.val] = queue[resp'.val]]_vars

\* the second half of a status update by task t completes in this step
StatusReturns(t) == pc[t] = "status" /\ pc'[t] = "idle" /\ resp'.err = ""

\* the frames of session h that no drain has returned yet: those collected
\* by a drain under way, then those in its queue
InFlight(h) ==
    (IF \E t \in Tasks : pc[t] = "dequeue" /\ loc[t].h = h
     THEN loc[CHOOSE t \in Tasks : pc[t] = "dequeue" /\ loc[t].h = h].buf
     ELSE <<>>) \o queue[h]

IsPrefix(p, q) == Len(p) <= Len(q) /\ SubSeq(q, 1, Len(p)) = p

\* every frame of a queue stays there until a drain returns it
DrainsLoseNothing ==
    \A h \in Handles :
        \/ IsPrefix(InFlight(h), InFlight(h)')
        \/ \E t \in Tasks :
               /\ pc[t] = "dequeue"
               /\ loc[t].h = h
               /\ pc'[t] = "idle"
               /\ resp'.data = InFlight(h)

\* C16 as stated: when a status update of a session succeeds, the queue of
\* every other registered session gets a UserStats frame for the session's
\* user that carries exactly the online status, description, beatmap md5,
\* mods and mode of the request, and the next drain of that queue returns it.
CexC16 ==
    [][/\ DrainsLoseNothing
       /\ \A t \in Tasks :
              StatusReturns(t) =>
                  \A s \in Range(indexes.session_id) \ {loc[t].h} :
                      LET f == queue'[s][Len(queue'[s])]
                      IN /\ queue'[s] = Append(queue[s], f)
                         /\ f.kind = "UserStats"
                         /\ f.a = sessions[loc[t].h].user_id
                         /\ f.online_status = loc[t].req.online_status
                         /\ f.description = loc[t].req.description
                         /\ f.beatmap_md5 = loc[t].req.beatmap_md5
                         /\ f.mods = loc[t].req.mods
                         /\ f.mode = loc[t].req.mode]_vars

\* C16: when a status update of a session succeeds, the queue of every other
\* registered session gets a UserStats frame for the session's user that
\* carries the description, beatmap md5 and mods of the request, its online
\* status and mode when they are variants of their enums and Idle and
\* Standard otherwise, and the next drain of that queue returns it.
ThmC16 ==
    [][/\ DrainsLoseNothing
       /\ \A t \in Tasks :
              StatusReturns(t) =>
                  \A s \in Range(indexes.session_id) \ {loc[t].h} :
                      LET f == queue'[s][Len(queue'[s])]
                          req == loc[t].req
                      IN /\ queue'[s] = Append(queue[s], f)
                         /\ f.kind = "UserStats"
                         /\ f.a = sessions[loc[t].h].user_id
                         /\ f.online_status =
                                (IF req.online_status \in 0..13
                                 THEN req.online_status ELSE 0)
                         /\ f.description = req.description
                         /\ f.beatmap_md5 = req.beatmap_md5
                         /\ f.mods = req.mods
                         /\ f.mode =
                                (IF req.mode \in {0, 1, 2, 3, 4, 5, 6, 8, 12}
                                 THEN req.mode ELSE 0)]_vars

\* a session has drained the stats frame of another session's status
\* update, once with values in range and once with values out of range
WitC16 ==
    \E h \in Handles : \E i, j \in 1..Len(drained[h]) :
        /\ drained[h][i].kind = "UserStats"
        /\ drained[h][i].a # sessions[h].user_id
        /\ drained[h][i].online_status = 2
        /\ drained[h][i].mode = 1
        /\ drained[h][i].mods = 64
        /\ drained[h][j].kind = "UserStats"
        /\ drained[h][j].description = 2
        /\ drained[h][j].online_status = 0

\* C17: channel_update_notify without a target list appends one ChannelInfo
\* frame to the queue of every session registered when it runs, appends
\* nothing to any other queue, and returns an empty list of failures.
ThmC17 ==
    [][(/\ resp'.op = "channel_update_notify"
        /\ resp'.err = ""
        /\ seq' # seq) =>
           /\ resp'.data = <<>>
           /\ \A h \in Handles :
                  IF h \in Range(indexes.session_id)
                  THEN /\ Len(queue'[h]) = Len(queue[h]) + 1
                       /\ SubSeq(queue'[h], 1, Len(queue[h])) = queue[h]
                       /\ queue'[h][Len(queue'[h])].kind = "ChannelInfo"
                  ELSE queue'[h] = queue[h]]_vars

\* a channel update without targets has reached two registered sessions, one
\* of which had received an earlier frame, and not a session deleted before
WitC17 ==
    /\ resp.op = "channel_update_notify"
    /\ resp.err = ""
    /\ Cardinality(Range(indexes.session_id)) = 2
    /\ \A s \in Range(indexes.session_id) :
           /\ queue[s] # <<>>
           /\ queue[s][Len(queue[s])].kind = "ChannelInfo"
    /\ \E s \in Range(indexes.session_id) : Len(queue[s]) = 2
    /\ \E h \in 1..created : h \notin live /\ Len(queue[h]) <= 1

\* what C18 says of a send of content m by user u to the user named by
\* query q: one SendMessage frame with the sender id, the target's name and
\* the content is appended to the queue of the target's session, and no
\* other queue and no channel log changes
OneFrameToTarget(u, m, q) ==
    LET h == GetInner(chat_indexes, q)
        name == IF q.kind = "UsernameUnicode"
                THEN sessions[h].username_unicode
                ELSE sessions[h].username
        f == chat_queue'[h][Len(chat_queue'[h])]
    IN /\ Len(chat_queue'[h]) = Len(chat_queue[h]) + 1
       /\ SubSeq(chat_queue'[h], 1, Len(chat_queue[h])) = chat_queue[h]
       /\ f.kind = "SendMessage"
       /\ f.a = u
       /\ f.b = name
       /\ f.c = m
       /\ \A x \in Handles \ {h} : chat_queue'[x] = chat_queue[x]
       /\ queue' = queue
       /\ message_queue' = message_queue

Gets(r) == resp'.err = r.err /\ resp'.val = r.val /\ resp'.data = r.data

\* C19: a lookup forwarded to a peer returns the result, or the error kind,
\* that the same lookup returns when it is executed on the peer's registry;
\* for a session that does not exist both return SessionNotExists.
CexC19 ==
    [][\A t \in Tasks : \A q \in AllQueries :
          /\ CheckUserSessionExists(t, "Remote", q) =>
                 Gets(CheckUserSessionExistsLocal(sessions, indexes, q))
          /\ GetUserSession(t, "Remote", q) =>
                 Gets(GetUserSessionLocal(sessions, indexes, q))]_vars

\* C20: a batched request ends only after every one of its frames has been
\* dispatched, whatever became of the frames before it, and then with a
\* response that holds the drained queue of its session, which is still
\* registered.
CexC20 ==
    [][\A t \in Tasks :
          (pc[t] = "batch" /\ pc'[t] = "idle") =>
              /\ loc[t].buf = <<>>
              /\ resp'.err = ""
              /\ \E k \in 0..Len(resp'.data) :
                     SubSeq(resp'.data, k + 1, Len(resp'.data))
                         = queue[loc[t].h]
              /\ loc[t].h \in Range(indexes'.session_id)]_vars

\* C21: a registry restored from its own snapshot answers every public query
\* as the original did: the lookup by each of the four keys, the number of
\* sessions, and the drain of the queue of every session.
CexC21 ==
    [][SnapshotRestore(1) =>
          /\ \A q \in AllQueries : GetInner(indexes', q) = GetInner(indexes, q)
          /\ Cardinality(Range(indexes'.session_id))
                 = Cardinality(Range(indexes.session_id))
          /\ \A h \in Range(indexes.session_id) :
                 DequeueAllPackets(<<>>, queue'[h])
                     = DequeueAllPackets(<<>>, queue[h])]_vars

\* C22: a registered session is in the end removed by the sweep unless it
\* becomes active again, and the sweep removes no session that
\* check_user_session_exists has found within the last Ttl units of time.
ThmC22 ==
    /\ \A h \in Handles :
           (h \in live /\ sessions[h].last_active > 0)
               ~> (h \notin live \/ sessions[h].last_active = 0)
    /\ [][Sweep => \A h \in live \ live' : sessions[h].last_check > Ttl]_vars

\* the sweep has removed one session of the first logins while another one,
\* which was checked in time, is still registered
WitC22 ==
    /\ created = NumUsers
    /\ \E h \in 1..NumUsers, g \in 1..NumUsers :
           /\ h \notin live
           /\ sessions[h].last_check > Ttl
           /\ g \in live
           /\ sessions[g].last_check <= Ttl
           /\ pc = [t \in Tasks |-> "idle"]

\* C23: enqueue_bancho_packets with a channel target that names an existing
\* channel returns success and appends the bytes to the message log of that
\* channel.
CexC23 ==
    [][\A t \in Tasks, target \in ChannelQueries :
          (GetChannel(target) # None
              /\ EnqueueBanchoPacketsTo(t, TRUE, target)) =>
              /\ resp'.err = ""
              /\ message_queue'[GetChannel(target)]
                     = PushMessage(message_queue[GetChannel(target)],
                                   DataFrame(t, seq[t] + 1))]_vars

\* the number of times frame f occurs in sequence q
Occurrences(q, f) == Cardinality({i \in 1..Len(q) : q[i] = f})

\* every frame that was ever put on the queue of session h and has not been
\* handed out to a caller yet, after those that have
EverQueued(h) == drained[h] \o InFlight(h)

UserTargets(targets) ==
    \A i \in 1..Len(targets) : targets[i].kind \in QueryKinds

\* C24: a batch_enqueue_bancho_packets whose targets are all user variants
\* returns success; when it returns, every session has got the frame once
\* for each listed target that resolves to it; and the turn of a target that
\* does not resolve changes no queue, no registry and reports nothing.
ThmC24 ==
    [][\A t \in Tasks :
          (pc[t] = "batch_enqueue" /\ UserTargets(loc[t].targets)) =>
              /\ pc'[t] = "idle" =>
                    /\ resp'.err = ""
                    /\ \A h \in Handles :
                           Occurrences(EverQueued(h), loc[t].buf[1])
                               = Cardinality(
                                     {i \in 1..Len(loc[t].targets) :
                                         GetInner(indexes, loc[t].targets[i])
                                             = h})
              /\ (/\ loc'[t].next = loc[t].next + 1
                  /\ GetInner(indexes, loc[t].targets[loc[t].next]) = None)
                     => UNCHANGED <<regVars, queueVars, resp>>]_vars

\* a batch of two targets has returned: the first target resolved and the
\* session has got the frame, the second one did not resolve
WitC24 ==
    /\ resp.op = "batch_enqueue"
    /\ resp.err = ""
    /\ \E h \in Handles :
           /\ Occurrences(EverQueued(h), resp.data[1]) = 1
           /\ Occurrences(drained[h], resp.data[1]) = 1
    /\ Cardinality({h \in Handles :
                       Occurrences(EverQueued(h), resp.data[1]) > 0}) = 1
    /\ Cardinality(live) = 1

\* C25: whatever the interleaving of pushes and drains on a queue, the
\* frames of the queue, those handed out included, change only by a push
\* that appends its frame, so that each frame is handed out by one drain,
\* once and in order; and a drain that returns hands out what it collected
\* and leaves the queue empty.
ThmC25 ==
    [][\A h \in Handles :
          /\ \/ EverQueued(h)' = EverQueued(h)
             \/ \E t \in Tasks :
                   /\ resp'.op = "enqueue"
                   /\ resp'.task = t
                   /\ resp'.err = ""
                   /\ seq'[t] = seq[t] + 1
                   /\ EverQueued(h)'
                          = Append(EverQueued(h), DataFrame(t, seq'[t]))
          /\ \A t \in Tasks :
                (pc[t] = "dequeue" /\ loc[t].h = h /\ pc'[t] = "idle") =>
                    /\ queue'[h] = <<>>
                    /\ resp'.data = loc[t].buf
                    /\ drained'[h] = drained[h] \o resp'.data]_vars

\* two drains of one queue have returned frames, the frames of both tasks
\* among them, and another frame was pushed while the second drain ran
WitC25 ==
    \E h \in Handles :
        /\ resp.op = "dequeue"
        /\ resp.data # <<>>
        /\ Len(resp.data) < Len(drained[h])
        /\ \A t \in Tasks : \E i \in 1..Len(drained[h]) : drained[h][i].a = t
        /\ \A i \in 1..Len(drained[h]), j \in 1..Len(drained[h]) :
               drained[h][i] = drained[h][j] => i = j

\* C26: from the call of a broadcast to its return the registry is one and
\* the same; when the broadcast returns, exactly the sessions of that
\* registry have got its frame, each of them once, and each of them is found
\* under every key it has.
ThmC26 ==
    [][\A t \in Tasks :
          pc[t] = "broadcast" =>
              /\ indexes' = indexes
              /\ pc'[t] = "idle" =>
                    /\ resp'.err = ""
                    /\ loc[t].visited = Values(indexes)
                    /\ \A h \in Handles :
                           Occurrences(EverQueued(h), loc[t].buf[1])
                               = IF h \in Values(indexes) THEN 1 ELSE 0
                    /\ \A h \in loc[t].visited :
                           \A kind \in KindsOf(sessions[h]) :
                               ResolvesBy(indexes, sessions[h], kind) = h]_vars

\* a broadcast has returned after a logout and a login of another user's
\* session were done before it: the new session has its frame, the session
\* that logged out has not
WitC26 ==
    /\ resp.op = "broadcast"
    /\ resp.err = ""
    /\ created > NumUsers
    /\ \E h \in Handles :
           /\ h \in live
           /\ h > NumUsers
           /\ Occurrences(queue[h], resp.data[1]) = 1
    /\ \E h \in 1..NumUsers :
           /\ h \notin live
           /\ Occurrences(queue[h], resp.data[1]) = 0

\* the status fields a UserStats frame carries
StatusOfFrame(f) ==
    [online_status |-> f.online_status, description |-> f.description,
     beatmap_id |-> f.beatmap_id, beatmap_md5 |-> f.beatmap_md5,
     mods |-> f.mods, mode |-> f.mode]

\* C27: every UserStats frame that is broadcast carries the status fields of
\* one request, and when no update is running the status of every session
\* is the one it was created with or that of one request.
CexC27 ==
    /\ \A h \in Handles : \A i \in 1..Len(queue[h]) :
           queue[h][i].kind = "UserStats" =>
               \E r \in StatusRequests :
                   StatusOfFrame(queue[h][i]) = ConvertRequest(r)
    /\ (\A t \in Tasks : Idle(t)) =>
           \A h \in Handles :
               \/ sessions[h].bancho_status = DefaultStatus
               \/ \E r \in StatusRequests :
                      sessions[h].bancho_status = ConvertRequest(r)

\* the queues whose mutex task t may have to take next
WantsQueue(t) ==
    CASE pc[t] = "broadcast" -> Values(indexes) \ loc[t].visited
      [] pc[t] = "batch_enqueue" /\ loc[t].next <= Len(loc[t].targets) ->
             {GetInner(indexes, loc[t].targets[loc[t].next])} \ {None}
      [] OTHER -> {}

\* task t is suspended: the mutex it needs is held by another task
Suspended(t) == \E h \in WantsQueue(t) : qlock[h] \notin {None, t}

\* C28: no task that holds a lease of the registry is suspended waiting for
\* a lock (the holder of a queue mutex during its drain is not meant).
CexC28 == \A t \in ReadLeases : ~Suspended(t)

\* the ids of the messages of channel c that the pull of this step returns
\* to session h
NewlyPulled(h, c) ==
    SubSeq(pulled'[h][c], Len(pulled[h][c]) + 1, Len(pulled'[h][c]))

\* the cursor of session h for channel c is the same before and after
CursorKept(h, c) ==
    /\ (c \in DOMAIN channel_read_process'[h])
           = (c \in DOMAIN channel_read_process[h])
    /\ ReadProcessOf(h, c)' = ReadProcessOf(h, c)

\* C30: a pull that returns messages of a channel leaves the cursor of that
\* channel at the id of the last of them; a pull that finds no message above
\* the cursor leaves the cursor as it was; and a pull changes no cursor of a
\* channel its user has not joined on the bancho platform, nor any cursor of
\* another session.
ThmC30 ==
    [][\A h \in Handles : \A c \in Channels :
          /\ PullReturns(h) =>
                LET got == NewlyPulled(h, c)
                    joined == c \in user_channels[sessions[h].user_id]["Bancho"]
                    above == ReceiveMessages(message_queue[c],
                                             ReadProcessOf(h, c)).messages
                IN /\ got # <<>> => ReadProcessOf(h, c)' = got[Len(got)]
                   /\ joined => got = IdsOf(above)
                   /\ above = <<>> => CursorKept(h, c)
                   /\ ~joined => CursorKept(h, c) /\ got = <<>>
          /\ (resp'.op = "pull" /\ resp'.val # h) => CursorKept(h, c)]_vars

\* a session has pulled twice: the first pull returned the first message of
\* a channel, the second found nothing above the cursor and left it there
WitC30 ==
    /\ resp.op = "pull"
    /\ resp.err = ""
    /\ \E c \in Channels :
           /\ pulled[resp.val][c] = <<1>>
           /\ ReadProcessOf(resp.val, c) = 1
           /\ resp.data = <<>>
           /\ message_queue[c].last_msg_id = 1

Appended(h) == SubSeq(chat_queue'[h], Len(chat_queue[h]) + 1, Len(chat_queue'[h]))

\* C31: a leave of a channel on the bancho platform appends no ChannelJoin
\* frame to the queue of the leaving user.
CexC31 ==
    [][\A cq \in ChannelQueries, u \in Users :
           (\/ RemoveUserPlatformsFromChannel(cq, u, {"Bancho"})
            \/ RemoveUserFromChannel(cq, u))
               => LET h == GetInner(chat_indexes, UserQuery("UserId", u))
                  IN h # None =>
                         \A i \in 1..Len(Appended(h)) :
                             Appended(h)[i].kind # "ChannelJoin"]_vars

\* C32: remove_user_platforms takes the user out of the member sets of the
\* listed platforms of the addressed channel and out of nothing else: the
\* other members, the unlisted platforms, the other channels and the other
\* users' reverse maps stay as they were, and the user is gone from the
\* channel in the reverse map exactly when it is in no member set of it.
ThmC32 ==
    [][\A c \in MoreChannels, u \in Users, ps \in PlatformSets :
           ChannelsRemoveUserPlatforms(c, u, ps) =>
               /\ \A p \in ps : u \notin members'[c][p]
               /\ \A p \in Platforms :
                      members'[c][p] \ {u} = members[c][p] \ {u}
               /\ \A p \in Platforms \ ps : members'[c][p] = members[c][p]
               /\ \A d \in MoreChannels \ {c} :
                      /\ members'[d] = members[d]
                      /\ \A p \in Platforms :
                             d \in user_channels'[u][p]
                                 <=> d \in user_channels[u][p]
               /\ \A v \in Users \ {u} :
                      user_channels'[v] = user_channels[v]
               /\ \A p \in Platforms \ ps :
                      user_channels'[u][p] = user_channels[u][p]
               /\ (\A p \in Platforms : u \notin members'[c][p])
                      <=> (\A p \in Platforms : c \notin user_channels'[u][p])
               /\ (\A p \in Platforms : u \notin members'[c][p])
                      <=> (\A p \in Platforms \ ps : u \notin members[c][p])]_vars

\* a user has left one platform of a channel and is still a member of it on
\* the other platform and of the other channel on both
WitC32 ==
    /\ resp.op = "channels_remove_user_platforms"
    /\ \E c \in MoreChannels, d \in MoreChannels, u \in Users :
           /\ c # d
           /\ u \notin members[c]["Bancho"]
           /\ u \in members[c]["Web"]
           /\ u \in members[d]["Bancho"]
           /\ u \in members[d]["Web"]
           /\ user_channels[u]["Web"] = {c, d}
           /\ user_channels[u]["Bancho"] = {d}

\* the listed targets that resolve to session h, and those that resolve to
\* no session, in the order of the list
TargetsOf(qs, h) == SelectSeq(qs, LAMBDA q : GetInner(indexes, q) = h)

\* C33: channel_update_notify with a target list appends one ChannelInfo
\* frame per listed target to the queue of the session the target resolves
\* to, leaves every other queue as it was, and returns as failures the
\* listed targets that resolve to no session, in the order of the list.
ThmC33 ==
    [][\A qs \in QueryLists :
           ChannelUpdateNotify(1, TRUE, qs, TRUE, TRUE,
                               ChannelInfoOf(members, 1)) =>
               /\ resp'.err = ""
               /\ resp'.data = TargetsOf(qs, None)
               /\ \A h \in Handles :
                      LET n == Len(TargetsOf(qs, h))
                      IN /\ Len(queue'[h]) = Len(queue[h]) + n
                         /\ SubSeq(queue'[h], 1, Len(queue[h])) = queue[h]
                         /\ \A i \in (Len(queue[h]) + 1)..Len(queue'[h]) :
                                queue'[h][i] =
                                    ChannelInfoFrame(ChannelNameOf(1), 0)]_vars

\* a channel update with two listed targets: the first resolved to a session,
\* which got the frame, the second to none and came back as the one failure,
\* while the other registered session got nothing
WitC33 ==
    /\ resp.op = "channel_update_notify_to"
    /\ resp.err = ""
    /\ Len(resp.data) = 1
    /\ \E h \in Range(indexes.session_id), g \in Range(indexes.session_id) :
           /\ h # g
           /\ Len(queue[h]) = 1
           /\ queue[h][1].kind = "ChannelInfo"
           /\ queue[g] = <<>>
    /\ \A t \in Tasks : seq[t] <= 1

\* C34: an enqueue or a dequeue without a target returns InvalidArgument, one
\* with a user target that resolves to no session returns SessionNotExists,
\* and in both cases the queues, the mutexes and the registry stay as they
\* were.
ThmC34 ==
    [][\A has_target \in BOOLEAN, target \in BanchoPacketTargets :
           (\/ EnqueueBanchoPacketsTo(1, has_target, target)
            \/ DequeueBanchoPacketsFrom(1, has_target, target)) =>
               /\ ~has_target =>
                      /\ resp'.err = "InvalidArgument"
                      /\ UNCHANGED <<regVars, queue, qlock, drained, pc>>
               /\ (/\ has_target
                   /\ target \in AllQueries
                   /\ GetInner(indexes, target) = None) =>
                      /\ resp'.err = "SessionNotExists"
                      /\ UNCHANGED <<regVars, queue, qlock, drained, pc>>]_vars

\* a frame was queued for a session, the session was deleted, and a drain
\* addressed to it afterwards was answered with SessionNotExists
WitC34 ==
    /\ resp.op = "dequeue"
    /\ resp.err = "SessionNotExists"
    /\ \E h \in 1..created : h \notin live /\ queue[h] # <<>>
    /\ \E h \in live : queue[h] # <<>>

\* the handlers with a payload, each with the payloads it can be given
HandlerStep(h, payload) ==
    \/ payload \in Payloads /\ UserChannelJoin(h, payload)
    \/ payload \in Payloads /\ UserChannelPart(h, payload)
    \/ UserStatsRequest(1, h, payload)
    \/ UserPresenceRequest(1, h, payload)
    \/ UserChangeAction(1, h, payload)
    \/ UserReceiveUpdates(1, h, payload)
    \/ UserToggleBlockNonFriendDms(1, h, payload)

\* C35: a handler given a frame without a payload returns
\* PacketPayloadNotExists, one given a payload that cannot be read returns
\* InvalidPacketPayload, and in both cases no session, queue or channel
\* changes.
ThmC35 ==
    [][\A kind \in {"none", "invalid"} :
           HandlerStep(1, Payload(kind, None)) =>
               /\ resp'.err = IF kind = "none" THEN "PacketPayloadNotExists"
                              ELSE "InvalidPacketPayload"
               /\ UNCHANGED <<regVars, queueVars, taskVars>>
               /\ UNCHANGED chatVars]_vars

\* a session that had joined a channel, changed its status and set its
\* filter sent a change of action that could not be read
WitC35 ==
    /\ resp.op = "change_action"
    /\ resp.err = "InvalidPacketPayload"
    /\ sessions[resp.val].filter_set
    /\ sessions[resp.val].bancho_status # DefaultStatus
    /\ \E c \in Channels : sessions[resp.val].user_id \in members[c]["Bancho"]
    /\ queue[resp.val] # <<>>

\* C36: the remote get_public_channels returns the cached list without
\* asking the chat service while the list is not expired; with an expired
\* list it asks, stores and returns the answer, and returns the expired list
\* without an error when the call fails; with nothing cached a failed call
\* is returned as RpcError.
ThmC36 ==
    [][\A rpc_ok \in BOOLEAN :
           GetPublicChannelsRemote(1, rpc_ok) =>
               LET expired == public_info.age > DEFAULT_CHANNEL_CACHE_EXPIRES
                   fresh == PublicChannels(members)
               IN /\ (public_info.some /\ ~expired) =>
                         /\ resp'.val = None
                         /\ resp'.err = ""
                         /\ resp'.data = public_info.cache
                         /\ public_info' = public_info
                  /\ (public_info.some /\ expired /\ rpc_ok) =>
                         /\ resp'.val = 1
                         /\ resp'.err = ""
                         /\ resp'.data = fresh
                         /\ public_info' = [some |-> TRUE, cache |-> fresh, age |-> 0]
                  /\ (public_info.some /\ expired /\ ~rpc_ok) =>
                         /\ resp'.val = 1
                         /\ resp'.err = ""
                         /\ resp'.data = public_info.cache
                         /\ public_info' = public_info
                  /\ (~public_info.some /\ ~rpc_ok) =>
                         /\ resp'.val = 1
                         /\ resp'.err = "RpcError"
                         /\ public_info' = public_info
                  /\ (~public_info.some /\ rpc_ok) =>
                         /\ resp'.err = ""
                         /\ resp'.data = fresh
                         /\ public_info'.cache = fresh]_vars

\* the cached list is expired and out of date, the call to the chat service
\* has failed, and the expired list was returned without an error
WitC36 ==
    /\ resp.op = "get_public_channels"
    /\ resp.err = ""
    /\ resp.val = 1
    /\ public_info.some
    /\ public_info.age > DEFAULT_CHANNEL_CACHE_EXPIRES
    /\ resp.data = public_info.cache
    /\ public_info.cache # PublicChannels(members)

\* C37: a batch_send_user_stats_packet or batch_send_presences that has
\* collected the frames of a non-empty list of queries pushes exactly one
\* packet onto the queue of the recipient, a packet without bytes when no
\* listed query gave a frame; with an empty list the call returns success at
\* once, whether or not a recipient is given or exists, and no queue changes.
ThmC37 ==
    [][/\ \A t \in Tasks :
              (/\ SendReturns(t)
               /\ resp'.op \in {"batch_send_user_stats_packet",
                                "batch_send_presences"}) =>
                  LET h == resp'.val
                  IN /\ loc[t].buf = resp'.data
                     /\ Len(queue'[h]) = Len(queue[h]) + 1
                     /\ SubSeq(queue'[h], 1, Len(queue[h])) = queue[h]
                     /\ queue'[h][Len(queue'[h])] = Packet(resp'.data)
                     /\ \A g \in Handles \ {h} : queue'[g] = queue[g]
       /\ \A has_to \in BOOLEAN, to \in AllQueries :
              (\/ BatchSendUserStatsPacket(1, <<>>, has_to, to)
               \/ BatchSendPresences(1, <<>>, has_to, to)) =>
                  /\ resp'.err = ""
                  /\ UNCHANGED <<queue, pc, regVars>>]_vars

\* the stats of the recipient alone were asked for: the one listed query was
\* the recipient itself, and a packet without bytes lies in its queue
WitC37 ==
    /\ resp.op = "batch_send_user_stats_packet"
    /\ resp.err = ""
    /\ resp.val # None
    /\ resp.data = <<>>
    /\ queue[resp.val] # <<>>
    /\ queue[resp.val][Len(queue[resp.val])] = Packet(<<>>)

\* C38: a join with the bancho platform by a user without a chat session
\* either returns success, with the membership recorded and the ChannelJoin
\* frame buffered for the user, or returns an error and leaves the member
\* sets and the reverse map as they were.
CexC38 ==
    [][\A cq \in ChannelQueries, u \in Users, ps \in PlatformSets :
           (/\ "Bancho" \in ps
            /\ GetInner(chat_indexes, UserQuery("UserId", u)) = None
            /\ AddUserIntoChannel(cq, u, ps)) =>
               \/ /\ resp'.err = ""
                  /\ u \in members'[GetChannel(cq)]["Bancho"]
                  /\ \E h \in Handles :
                         /\ sessions[h].user_id = u
                         /\ Appended(h) =
                                <<ChannelJoinFrame(
                                      ChannelNameOf(GetChannel(cq)))>>
               \/ /\ resp'.err \notin {"", "panic"}
                  /\ UNCHANGED <<members, user_channels>>]_vars

\* C39: a bancho_login without a client version header, or with a body whose
\* client_version is not the header's, returns a login error, does not call
\* the login service (no create_user_session is started) and leaves the
\* registry and the queues as they were.
ThmC39 ==
    [][\A t \in Tasks, body \in LoginBodies, version \in VersionHeaders :
           (/\ BanchoLogin(t, body, version)
            /\ \/ ~version.some
               \/ body.kind = "login" /\ body.client_version # version.v) =>
               /\ resp'.op = "bancho_login"
               /\ resp'.task = t
               /\ resp'.err \in LoginErrors
               /\ pc'[t] = "idle"
               /\ UNCHANGED <<regVars, queueVars, pc, loc>>]_vars

WitC39 ==
    /\ resp.op = "bancho_login"
    /\ resp.err = "Login(mismatched client version)"
    /\ live # {}

\* C40: reload_clients returns, and afterwards the keys of api_clients are
\* exactly the configured keys: a client is in the list afterwards iff its
\* key is configured, and every client of a configured key was kept.
CexC40 ==
    [][\A new_keys \in KeyLists :
           ReloadClients(new_keys) =>
               /\ resp'.err = ""
               /\ Range(api_clients') = Range(new_keys)
               /\ \A k \in Range(api_clients) \cap Range(new_keys) :
                      Cardinality({i \in 1..Len(api_clients') :
                                       api_clients'[i] = k})
                          >= Cardinality({i \in 1..Len(api_clients) :
                                              api_clients[i] = k})]_vars

=============================================================================
